---------------------------- MODULE Spec2Model ----------------------------
(***************************************************************************)
(* A model of the observation parsing and temporal aggregation pipeline    *)
(* of the GRASS GIS SOS tools (src/sos): soslib.standardize_table_name,    *)
(* soslib.xml2geojson and create_maps of t.vect.in.sos / full_maps of      *)
(* r.in.sos.                                                               *)
(*                                                                         *)
(* A Python str is a sequence of one-character strings, so that split,     *)
(* join, slicing and the substring test are computed, not assumed.         *)
(***************************************************************************)
EXTENDS Integers, Sequences, FiniteSets, TLC

VARIABLES
    \* ---- standardize_table_name (soslib.py)
    name_parts,     \* the list handed to standardize_table_name
    table_name,     \* its result
    again,          \* the result of standardizing [table_name]
    pcName,         \* "call" | "returned" | "again"
    \* ---- xml2geojson (soslib.py)
    xml_file,       \* the response: the sequence of its om:member blocks
    observed_property,
    import_empty,
    geojson,        \* what xml2geojson returned, or the exception it raised
    pcXml,          \* "call" | "returned"
    \* ---- create_maps (t.vect.in.sos.py) / full_maps (r.in.sos.py)
    module,         \* "t.vect.in.sos" | "r.in.sos"
    options,        \* options['output'], options['method']
    offering,
    obs_key,        \* key, the observed property a parsed_obs item is of
    event_time,
    seconds_granularity,
    data,           \* json.loads(observation)['features']
    epoch_s,
    epoch_e,
    intervals,
    fi,             \* the feature the loop over data['features'] is at
    pi,             \* how many of its properties have been visited
    points,         \* t.vect.in.sos: procedure name -> category
    free_cat,
    geometries,     \* r.in.sos: procedure name -> coordinates
    last,           \* the observation visited last, and where it went
    bi,             \* how many keys the loop over intervals has visited
    layer,          \* t.vect.in.sos: i, the next free layer
    layers_timestamps,
    tables,         \* the tables (vector maps of r.in.sos) created
    rasters,        \* r.in.sos: the raster maps created
    pcMaps,         \* "start" | "intervals" | "features" | "tables" |
                    \* "done" | an exception
    \* ---- an invocation of a module (parser(), then main())
    program,        \* the module invoked
    running,        \* the module whose code runs: r.in.sos in t.rast.in.sos
    opt_method,     \* method=... of the command line
    opt_offering,   \* offering=... of the command line, split at ','
    xy_location,    \* g.proj reports 'XY location (unprojected)'
    osr_exceptions, \* osgeo raises exceptions instead of returning codes
    off_k,          \* the place in opt_offering of off, the loop variable
    log,            \* what was requested, parsed and written, in order
    status,         \* how the running module ended, "none" before
    rast_status,    \* how t.rast.in.sos ended, "none" before
    pcMain,         \* the next step of the invocation
    \* ---- maps_rows_sensors (v.in.sos.py), with the variables of create_maps
    cols,           \* the columns of the table: (name, type)
    empty_procs,
    inserts,        \* procedure name -> the row to insert
    warned,         \* grass.warning was called for the number of columns
    pcWide,         \* "features" | "guard" | "table" | "inserts" | "rows" |
                    \* "done" | an exception
    \* ---- the loop over the offerings in main, with the variables of an
    \* invocation
    offered,        \* offering -> its observed properties, as the service
                    \* or the option gives them
    parsed_obs,     \* observed property -> the collection parsed for it
    \* ---- create_temporal of t.vect.in.sos
    registered,     \* the layers registered in the space time dataset
    \* ---- the automatic region of r.in.sos (no bbox option)
    resolution,     \* the resolution, in map units
    geometry_list,  \* the coordinates (x, y) of the procedures, in the order
                    \* they are written in; counted in halves of a map unit
    gi,             \* how many of them are written
    region,         \* n, s, e, w in halves of a map unit, or None
    pcRegion,       \* "write" | "done"
    \* ---- maps_rows_timestamps (v.in.sos.py), with the variables of
    \* create_maps, parsed_obs and empty_procs
    obs_props,      \* the observed properties of the offering
    ki,             \* how many items of parsed_obs the loop has visited
    cur_layer,
    pcRows,         \* "properties" | "features" | "done" | an exception
    \* ---- the map handle `new` of the vector writers
    writer,         \* the function that writes
    shape,          \* for each observed property, its features
    handle,         \* is_open, and what was done against the discipline
    hk,             \* properties visited
    hf,             \* features of the property visited
    hb,             \* non-empty buckets of the property still to write
    pcHandle        \* "properties" | "features" | "buckets" | "returned"

namesVars == <<name_parts, table_name, again, pcName>>
xmlVars == <<xml_file, observed_property, import_empty, geojson, pcXml>>
mapsIn == <<module, options, offering, obs_key, event_time, seconds_granularity,
            data>>
mapsOut == <<tables, rasters, layer, layers_timestamps>>
mapsVars == <<mapsIn, epoch_s, epoch_e, intervals, fi, pi, points, free_cat,
              geometries, last, bi, mapsOut, pcMaps>>
mainIn == <<program, opt_method, opt_offering, xy_location, osr_exceptions>>
mainVars == <<mainIn, running, off_k, log, status, rast_status, pcMain>>
wideVars == <<cols, empty_procs, inserts, warned, pcWide>>
loopVars == <<offered, parsed_obs>>
regionVars == <<resolution, geometry_list, gi, region, pcRegion>>
rowsVars == <<obs_props, ki, cur_layer, pcRows>>
handleVars == <<writer, shape, handle, hk, hf, hb, pcHandle>>
lateVars == <<loopVars, registered, regionVars, rowsVars, handleVars>>
otherVars == <<mainVars, wideVars, lateVars>>
vars == <<namesVars, xmlVars, mapsVars, otherVars>>

(***************************************************************************)
(* Python str operations                                                   *)
(***************************************************************************)

\* c in s, for a one-character c
HasChar(s, c) == \E i \in 1..Len(s) : s[i] = c

\* s.split(c) for a one-character separator c: never empty, keeps empty pieces
RECURSIVE split(_, _)
split(s, c) ==
    IF ~HasChar(s, c) THEN <<s>>
    ELSE LET i == CHOOSE k \in 1..Len(s) :
                      s[k] = c /\ \A j \in 1..(k - 1) : s[j] # c
         IN  <<SubSeq(s, 1, i - 1)>> \o split(SubSeq(s, i + 1, Len(s)), c)

\* sep.join(parts)
RECURSIVE join(_, _)
join(sep, parts) ==
    IF Len(parts) = 0 THEN <<>>
    ELSE IF Len(parts) = 1 THEN parts[1]
    ELSE parts[1] \o sep \o join(sep, Tail(parts))

\* '{}_{}'.format(a, b)
format_(a, b) == a \o <<"_">> \o b

(***************************************************************************)
(* soslib.standardize_table_name                                           *)
(***************************************************************************)

\* a plausible slip: the pass for '.' is forgotten
ReplacePassesNoDot(t) ==
    LET t1 == IF HasChar(t, ":") THEN join(<<"_">>, split(t, ":")) ELSE t
        t2 == IF HasChar(t1, "-") THEN join(<<"_">>, split(t1, "-")) ELSE t1
    IN  t2

\* the three substitution passes, in the order ':' then '-' then '.'
ReplacePasses(t) ==
    LET t1 == IF HasChar(t, ":") THEN join(<<"_">>, split(t, ":")) ELSE t
        t2 == IF HasChar(t1, "-") THEN join(<<"_">>, split(t1, "-")) ELSE t1
        t3 == IF HasChar(t2, ".") THEN join(<<"_">>, split(t2, ".")) ELSE t2
    IN  t3

RECURSIVE JoinParts(_, _)
JoinParts(acc, rest) ==
    IF Len(rest) = 0 THEN acc
    ELSE JoinParts(format_(acc, rest[1]), Tail(rest))

\* name_parts is a non-empty list (name_parts[0] is read first)
standardize_table_name(parts) ==
    ReplacePasses(JoinParts(parts[1], Tail(parts)))

(***************************************************************************)
(* Inputs of the sanitizer                                                 *)
(***************************************************************************)

\* characters a name part is drawn from: the three replaced ones, the
\* replacement, a letter, a digit, and two that no pass touches
NameAlphabet == {":", "-", ".", "_", "a", "1", " ", "/"}

MaxNameLen == 3

RECURSIVE StringsUpTo(_, _)
StringsUpTo(alphabet, n) ==
    IF n = 0 THEN {<<>>}
    ELSE LET shorter == StringsUpTo(alphabet, n - 1)
         IN  shorter \cup {Append(s, c) : s \in shorter, c \in alphabet}

\* one part, or a string cut in two parts at any place
PartLists ==
    LET S == StringsUpTo(NameAlphabet, MaxNameLen)
    IN  {<<s>> : s \in S}
        \cup UNION {{<<SubSeq(s, 1, k), SubSeq(s, k + 1, Len(s))>> :
                        k \in 0..Len(s)} : s \in S}

NamesInputs ==
    /\ name_parts \in PartLists
    /\ table_name = <<>>
    /\ again = <<>>
    /\ pcName = "call"

\* the sanitizer is not running
NamesIdle ==
    /\ name_parts = <<>>
    /\ table_name = <<>>
    /\ again = <<>>
    /\ pcName = "idle"

\* table_name = standardize_table_name(name_parts)
Standardize ==
    /\ pcName = "call"
    /\ table_name' = standardize_table_name(name_parts)
    /\ pcName' = "returned"
    /\ UNCHANGED <<name_parts, again, xmlVars, mapsVars>>
    /\ UNCHANGED otherVars

\* standardize_table_name([table_name])
StandardizeAgain ==
    /\ pcName = "returned"
    /\ again' = standardize_table_name(<<table_name>>)
    /\ pcName' = "again"
    /\ UNCHANGED <<name_parts, table_name, xmlVars, mapsVars>>
    /\ UNCHANGED otherVars

(***************************************************************************)
(* soslib.xml2geojson                                                      *)
(*                                                                         *)
(* The response is the sequence of its om:member blocks.  A member is      *)
(*   [name, location, quantities, textblock, values]                       *)
(* and its elements are visited in document order (child.iter()): the      *)
(* gml:name, the location of the feature of interest, the swe:Quantity     *)
(* fields of the DataRecord, the swe:TextBlock encoding, the values.       *)
(* Separators are single characters.                                       *)
(***************************************************************************)

None == "None"          \* Python's None, where a str is expected
Unbound == "Unbound"    \* a local variable that was never assigned
NoIndex == -1           \* wanted_index = None
NoCrs == "0"            \* crs = 0

\* an element the member does not have
NoLocation == [present |-> FALSE, srsName |-> "", type |-> "",
               coordinates |-> <<>>]
NoTextBlock == [present |-> FALSE, tokenSeparator |-> "", blockSeparator |-> ""]
NoValues == [present |-> FALSE, text |-> <<>>]

\* sub in s
contains(sub, s) ==
    \E i \in 0..(Len(s) - Len(sub)) : SubSeq(s, i + 1, i + Len(sub)) = sub

\* ''.join(s.split(c)): every c removed
strip_char(s, c) == join(<<>>, split(s, c))

\* a plausible slip: '+' is left in the key
time_stamp_key_with_plus(token) ==
    strip_char(strip_char(<<"t">> \o token, ":"), "-")

\* 't%s' % token, then ':', '-', '+' removed in that order
time_stamp_key(token) ==
    strip_char(strip_char(strip_char(<<"t">> \o token, ":"), "-"), "+")

\* code points, for the order of sort_keys
CodePointOrder ==
    <<" ", "+", ",", "-", ".", "/", "0", "1", "2", "3", "4", "5", "6", "7",
      "8", "9", ":", ";", "@", "T", "Z", "_", "a", "n", "p", "t", "|">>

ord(c) == CHOOSE i \in 1..Len(CodePointOrder) : CodePointOrder[i] = c

\* s1 < s2 on str
RECURSIVE str_less(_, _)
str_less(s1, s2) ==
    IF Len(s2) = 0 THEN FALSE
    ELSE IF Len(s1) = 0 THEN TRUE
    ELSE IF s1[1] # s2[1] THEN ord(s1[1]) < ord(s2[1])
    ELSE str_less(Tail(s1), Tail(s2))

\* dict.update({key: value}) on an insertion-ordered dict of <<key, value>>
dict_update(d, key, value) ==
    IF \E i \in 1..Len(d) : d[i][1] = key
    THEN [i \in 1..Len(d) |-> IF d[i][1] = key THEN <<key, value>> ELSE d[i]]
    ELSE Append(d, <<key, value>>)

\* the items of a dict in the order of sort_keys=True
RECURSIVE sort_keys(_)
sort_keys(d) ==
    IF Len(d) = 0 THEN <<>>
    ELSE LET m == CHOOSE i \in 1..Len(d) :
                      \A j \in 1..Len(d) : j = i \/ str_less(d[i][1], d[j][1])
         IN  <<d[m]>> \o sort_keys([k \in 1..(Len(d) - 1) |->
                                       IF k < m THEN d[k] ELSE d[k + 1]])

\* the elements of a member, in document order
ItemsOf(m) ==
    <<[tag |-> "name", val |-> m.name]>>
    \o (IF m.location.present
        THEN <<[tag |-> "location", val |-> m.location]>> ELSE <<>>)
    \o [j \in 1..Len(m.quantities) |->
            [tag |-> "Quantity", val |-> m.quantities[j]]]
    \o (IF m.textblock.present
        THEN <<[tag |-> "TextBlock", val |-> m.textblock]>> ELSE <<>>)
    \o (IF m.values.present
        THEN <<[tag |-> "values", val |-> m.values.text]>> ELSE <<>>)

\* a plausible slip: a CRS that differs from the one before replaces it
RECURSIVE crs_pass_unchecked(_, _)
crs_pass_unchecked(crs, members) ==
    IF Len(members) = 0 THEN crs
    ELSE IF ~members[1].location.present
    THEN crs_pass_unchecked(crs, Tail(members))
    ELSE crs_pass_unchecked(members[1].location.srsName, Tail(members))

\* lines 39-50: the CRS of all location elements; 0 when there is none,
\* "ValueError" when two of them differ
RECURSIVE crs_pass(_, _)
crs_pass(crs, members) ==
    IF Len(members) = 0 THEN crs
    ELSE IF ~members[1].location.present THEN crs_pass(crs, Tail(members))
    ELSE IF crs # NoCrs /\ crs # members[1].location.srsName THEN "ValueError"
    ELSE crs_pass(members[1].location.srsName, Tail(members))

\* lines 89-95: the rows of the values text, stored under their time stamp
RECURSIVE store_rows(_, _, _, _)
store_rows(st, rows, token_separator, wanted_index) ==
    IF Len(rows) = 0 \/ st.status # "ok" THEN st
    ELSE LET tokens == split(rows[1], token_separator)
         IN  IF wanted_index + 1 > Len(tokens)
             THEN [st EXCEPT !.status = "IndexError"]
             ELSE store_rows(
                      [st EXCEPT !.data = dict_update(st.data,
                                     time_stamp_key(tokens[1]),
                                     tokens[wanted_index + 1])],
                      Tail(rows), token_separator, wanted_index)

\* a plausible slip: the index is counted from 0, the time stamp's place
quantity_item_from_zero(st, definition, prop) ==
    IF contains(prop, definition)
    THEN [st EXCEPT !.wanted_index = st.current_index - 1]
    ELSE [st EXCEPT !.current_index = st.current_index + 1]

\* lines 67-71: a matching field fixes the index, any other field moves it
quantity_item(st, definition, prop) ==
    IF contains(prop, definition)
    THEN [st EXCEPT !.wanted_index = st.current_index]
    ELSE [st EXCEPT !.current_index = st.current_index + 1]

\* lines 75-95: the values element
values_item(st, text, prop, empty) ==
    IF st.wanted_index = NoIndex THEN st
    ELSE IF text = <<>>
    THEN [st EXCEPT !.include = IF empty THEN st.include ELSE FALSE,
                    !.warnings = st.warnings + 1,
                    !.status = "break"]
    ELSE IF st.block_separator = Unbound THEN [st EXCEPT !.status = "NameError"]
    ELSE store_rows(st, split(text, st.block_separator),
                    st.token_separator, st.wanted_index)

\* lines 62-101: one pass of the loop over child.iter()
process_item(st, item, prop, empty) ==
    CASE item.tag = "name" ->
            IF st.name_found THEN st
            ELSE [st EXCEPT !.name = item.val, !.name_found = TRUE]
      [] item.tag = "Quantity" -> quantity_item(st, item.val, prop)
      [] item.tag = "TextBlock" ->
            [st EXCEPT !.token_separator = item.val.tokenSeparator,
                       !.block_separator = item.val.blockSeparator]
      [] item.tag = "values" -> values_item(st, item.val, prop, empty)
      [] item.tag = "location" ->
            [st EXCEPT !.geometry_type = item.val.type,
                       !.geometry_coords = item.val.coordinates]
      [] OTHER -> st

RECURSIVE iter_items(_, _, _, _)
iter_items(st, items, prop, empty) ==
    IF Len(items) = 0 \/ st.status # "ok" THEN st
    ELSE iter_items(process_item(st, items[1], prop, empty), Tail(items),
                    prop, empty)

\* lines 103-110: the feature of a member
feature_of(st) ==
    [name |-> st.name,
     geometry |-> [type |-> st.geometry_type,
                   coordinates |-> st.geometry_coords],
     series |-> st.data]

\* lines 52-110: one member.  The variables set at the top of the loop
\* body start afresh; the separators and the geometry are only ever
\* assigned inside the item loop and keep what an earlier member left.
parse_member(st, m, prop, empty) ==
    LET fresh == [st EXCEPT !.name = None, !.data = <<>>,
                            !.name_found = FALSE, !.current_index = 1,
                            !.include = TRUE, !.wanted_index = NoIndex]
        after == iter_items(fresh, ItemsOf(m), prop, empty)
        out == IF after.status = "break" THEN [after EXCEPT !.status = "ok"]
               ELSE after
    IN  IF out.status # "ok" \/ ~out.include THEN out
        ELSE IF out.geometry_type = Unbound
        THEN [out EXCEPT !.status = "NameError"]
        ELSE [out EXCEPT !.features = Append(out.features, feature_of(out))]

RECURSIVE parse_members(_, _, _, _)
parse_members(st, members, prop, empty) ==
    IF Len(members) = 0 \/ st.status # "ok" THEN st
    ELSE parse_members(parse_member(st, members[1], prop, empty),
                       Tail(members), prop, empty)

\* json.dumps(a, sort_keys=True): the properties of a feature by key
dumps_feature(f) == [f EXCEPT !.series = sort_keys(f.series)]

\* xml2geojson(xml_file, observed_property, import_empty)
xml2geojson(members, prop, empty) ==
    LET crs == crs_pass(NoCrs, members)
        st0 == [status |-> "ok", features |-> <<>>, warnings |-> 0,
                name |-> None, data |-> <<>>, name_found |-> FALSE,
                current_index |-> 1, include |-> TRUE,
                wanted_index |-> NoIndex,
                token_separator |-> Unbound, block_separator |-> Unbound,
                geometry_type |-> Unbound, geometry_coords |-> <<>>]
        st == parse_members(st0, members, prop, empty)
    IN  IF crs = "ValueError"
        THEN [status |-> "ValueError", crs |-> NoCrs, features |-> <<>>,
              warnings |-> 0]
        ELSE [status |-> st.status, crs |-> crs,
              features |-> IF st.status = "ok"
                           THEN [i \in 1..Len(st.features) |->
                                    dumps_feature(st.features[i])]
                           ELSE <<>>,
              warnings |-> st.warnings]

(***************************************************************************)
(* Inputs of xml2geojson                                                   *)
(***************************************************************************)

MaxFields == 2      \* Quantity fields of a response
MaxRows == 2        \* rows of a values text

Digits == <<"0", "1", "2", "3", "4", "5", "6", "7", "8", "9">>

\* str(n) for 0 <= n <= 9
digit(n) == Digits[n + 1]

\* definitions of Quantity fields, and the properties asked for
Definitions == {<<"a", ":", "t">>, <<"a", ":", "p">>}
Properties == {<<"t">>, <<":", "p">>}

\* the time stamp token of row r
RowTime(r) == <<"0", ":", digit(r), "+", "0">>

\* the token of field j in row r: no two places hold the same token
Token(r, j) == <<digit(r), digit(j)>>

TextBlocks == {NoTextBlock,
               [present |-> TRUE, tokenSeparator |-> ",", blockSeparator |-> ";"],
               [present |-> TRUE, tokenSeparator |-> "|", blockSeparator |-> "@"]}

\* a values text of nrows rows of nfields fields, written with the
\* separators of the member's TextBlock (',' and ';' when it has none)
ValuesText(tb, nfields, nrows) ==
    LET ts == IF tb.present THEN tb.tokenSeparator ELSE ","
        bs == IF tb.present THEN tb.blockSeparator ELSE ";"
        row(r) == join(<<ts>>, <<RowTime(r)>> \o [j \in 1..nfields |-> Token(r, j)])
    IN  join(<<bs>>, [r \in 1..nrows |-> row(r)])

Locations(i) ==
    {NoLocation} \cup {[present |-> TRUE, srsName |-> srs, type |-> "Point",
                        coordinates |-> <<i, i + 1, 0>>] :
                           srs \in {"EPSG:4326", "EPSG:3857"}}

ProcName(i) == IF i = 1 THEN "s1" ELSE "s2"

\* the i-th member of a response, with at most budget Quantity fields
Members(i, budget) ==
    {[name |-> ProcName(i), location |-> l, quantities |-> q,
      textblock |-> tb, values |-> v] :
        l \in Locations(i), q \in StringsUpTo(Definitions, budget),
        tb \in TextBlocks, v \in {[present |-> TRUE, text |-> <<>>]}}

\* the values text is empty, or holds MaxRows rows
WithValues(m) ==
    {m, [m EXCEPT !.values.text =
                ValuesText(m.textblock, Len(m.quantities), MaxRows)]}

\* responses of one or two members
XmlFiles ==
    LET member(i, budget) == UNION {WithValues(m) : m \in Members(i, budget)}
    IN  {<<m>> : m \in member(1, MaxFields)}
        \cup UNION {{<<m1, m2>> :
                        m2 \in member(2, MaxFields - Len(m1.quantities))} :
                    m1 \in member(1, MaxFields)}

\* responses of three members that differ in their location elements only
CrsFiles ==
    LET member(i, l) ==
            [name |-> IF i = 3 THEN "s3" ELSE ProcName(i), location |-> l,
             quantities |-> <<>>,
             textblock |-> [present |-> TRUE, tokenSeparator |-> ",",
                            blockSeparator |-> ";"],
             values |-> [present |-> TRUE, text |-> <<>>]]
    IN  {<<member(1, l1), member(2, l2), member(3, l3)>> :
            l1 \in Locations(1), l2 \in Locations(2), l3 \in Locations(3)}

\* time stamp tokens, two of which differ in the sign of the offset only
ClashTimes == {<<"0", ":", "1", "+", "0">>, <<"0", ":", "1", "-", "0">>,
               <<"0", ":", "2", "+", "0">>}

CommaBlock == [present |-> TRUE, tokenSeparator |-> ",", blockSeparator |-> ";"]

\* responses of one member with one field, whose rows bear any of the
\* time stamps of ClashTimes
ClashFiles ==
    {<<[name |-> ProcName(1),
        location |-> [present |-> TRUE, srsName |-> "EPSG:4326",
                      type |-> "Point", coordinates |-> <<1, 2, 0>>],
        quantities |-> <<<<"a", ":", "t">>>>,
        textblock |-> CommaBlock,
        values |-> [present |-> TRUE,
                    text |-> join(<<";">>,
                                [r \in 1..Len(times) |->
                                    times[r] \o <<",">> \o Token(r, 1)])]]>> :
        times \in UNION {[1..n -> ClashTimes] : n \in 1..MaxRows}}

\* a property that every definition contains
AnyProperty == <<"a">>

\* responses of one member with up to MaxFields + 1 fields
IndexFiles ==
    {<<[name |-> ProcName(1),
        location |-> [present |-> TRUE, srsName |-> "EPSG:4326",
                      type |-> "Point", coordinates |-> <<1, 2, 0>>],
        quantities |-> q,
        textblock |-> CommaBlock,
        values |-> [present |-> TRUE,
                    text |-> ValuesText(CommaBlock, Len(q), MaxRows)]]>> :
        q \in StringsUpTo(Definitions, MaxFields + 1) \ {<<>>}}

NotReturned == [status |-> "none", crs |-> NoCrs, features |-> <<>>,
                warnings |-> 0]

XmlInputs ==
    /\ xml_file \in XmlFiles \cup CrsFiles
    /\ observed_property \in Properties
    /\ import_empty \in BOOLEAN
    /\ geojson = NotReturned
    /\ pcXml = "call"

\* as XmlInputs, with the responses of ClashFiles and IndexFiles
XmlMoreInputs ==
    /\ \/ /\ xml_file \in XmlFiles \cup ClashFiles
          /\ observed_property \in Properties
       \/ /\ xml_file \in IndexFiles
          /\ observed_property \in Properties \cup {AnyProperty}
    /\ import_empty \in BOOLEAN
    /\ geojson = NotReturned
    /\ pcXml = "call"

\* the parser is not running
XmlIdle ==
    /\ xml_file = <<>>
    /\ observed_property = <<>>
    /\ import_empty = FALSE
    /\ geojson = NotReturned
    /\ pcXml = "idle"

\* geojson = xml2geojson(xml_file, observed_property, import_empty)
Xml2GeoJson ==
    /\ pcXml = "call"
    /\ geojson' = xml2geojson(xml_file, observed_property, import_empty)
    /\ pcXml' = "returned"
    /\ UNCHANGED <<xml_file, observed_property, import_empty, namesVars,
                   mapsVars>>
    /\ UNCHANGED otherVars

(***************************************************************************)
(* time.strptime, time.mktime, datetime.fromtimestamp, strftime, float     *)
(*                                                                         *)
(* Every date field of the inputs drawn here has its full width, where     *)
(* the two-digit and four-digit reading of strptime is the only one.  The  *)
(* local time zone is UTC, without daylight saving.                        *)
(***************************************************************************)

IsDigit(c) == \E i \in 1..10 : Digits[i] = c

DigitVal(c) == (CHOOSE i \in 1..10 : Digits[i] = c) - 1

\* int(s) for a non-empty run of digits
RECURSIVE int_of(_)
int_of(s) ==
    IF Len(s) = 0 THEN 0
    ELSE 10 * int_of(SubSeq(s, 1, Len(s) - 1)) + DigitVal(s[Len(s)])

AllDigits(s) == \A i \in 1..Len(s) : IsDigit(s[i])

BadTime == [ok |-> FALSE, Y |-> 0, M |-> 0, D |-> 0, h |-> 0, m |-> 0, s |-> 0]

\* the struct_time of six digit runs, ValueError when a field is out of range
struct_time(Y, M, D, h, m, s) ==
    IF AllDigits(Y \o M \o D \o h \o m \o s)
       /\ int_of(M) \in 1..12 /\ int_of(D) \in 1..31 /\ int_of(h) \in 0..23
       /\ int_of(m) \in 0..59 /\ int_of(s) \in 0..61
    THEN [ok |-> TRUE, Y |-> int_of(Y), M |-> int_of(M), D |-> int_of(D),
          h |-> int_of(h), m |-> int_of(m), s |-> int_of(s)]
    ELSE BadTime

\* time.strptime(s, '%Y-%m-%dT%H:%M:%S'); text left over is a ValueError
strptime_iso(s) ==
    IF Len(s) = 19 /\ s[5] = "-" /\ s[8] = "-" /\ s[11] = "T"
       /\ s[14] = ":" /\ s[17] = ":"
    THEN struct_time(SubSeq(s, 1, 4), SubSeq(s, 6, 7), SubSeq(s, 9, 10),
                     SubSeq(s, 12, 13), SubSeq(s, 15, 16), SubSeq(s, 18, 19))
    ELSE BadTime

\* time.strptime(s, 't%Y%m%dT%H%M%S')
strptime_compact(s) ==
    IF Len(s) = 16 /\ s[1] = "t" /\ s[10] = "T"
    THEN struct_time(SubSeq(s, 2, 5), SubSeq(s, 6, 7), SubSeq(s, 8, 9),
                     SubSeq(s, 11, 12), SubSeq(s, 13, 14), SubSeq(s, 15, 16))
    ELSE BadTime

\* days since 1970-01-01 of a civil date
days_from_civil(Y, M, D) ==
    LET y == IF M <= 2 THEN Y - 1 ELSE Y
        era == y \div 400
        yoe == y - era * 400
        mp == IF M > 2 THEN M - 3 ELSE M + 9
        doy == (153 * mp + 2) \div 5 + D - 1
        doe == yoe * 365 + yoe \div 4 - yoe \div 100 + doy
    IN  era * 146097 + doe - 719468

\* int(time.mktime(struct_time))
mktime(tm) ==
    days_from_civil(tm.Y, tm.M, tm.D) * 86400 + tm.h * 3600 + tm.m * 60 + tm.s

\* datetime.datetime.fromtimestamp(seconds)
fromtimestamp(seconds) ==
    LET z == seconds \div 86400 + 719468
        sod == seconds % 86400
        era == z \div 146097
        doe == z - era * 146097
        yoe == (doe - doe \div 1460 + doe \div 36524 - doe \div 146096) \div 365
        doy == doe - (365 * yoe + yoe \div 4 - yoe \div 100)
        mp == (5 * doy + 2) \div 153
        D == doy - (153 * mp + 2) \div 5 + 1
        M == IF mp < 10 THEN mp + 3 ELSE mp - 9
        Y == yoe + era * 400 + (IF M <= 2 THEN 1 ELSE 0)
    IN  [ok |-> TRUE, Y |-> Y, M |-> M, D |-> D, h |-> sod \div 3600,
         m |-> (sod % 3600) \div 60, s |-> sod % 60]

\* '%02d' % n
pad2(n) == <<digit(n \div 10), digit(n % 10)>>

\* '%04d' % n
pad4(n) == pad2(n \div 100) \o pad2(n % 100)

\* strftime('t%Y%m%dT%H%M%S')
strftime_compact(tm) ==
    <<"t">> \o pad4(tm.Y) \o pad2(tm.M) \o pad2(tm.D) \o <<"T">>
    \o pad2(tm.h) \o pad2(tm.m) \o pad2(tm.s)

\* a float is kept as the exact fraction num / den, in lowest terms
RECURSIVE gcd(_, _)
gcd(a, b) == IF b = 0 THEN a ELSE gcd(b, a % b)

abs(n) == IF n < 0 THEN -n ELSE n

fraction(num, den) ==
    LET g == gcd(abs(num), den) IN [num |-> num \div g, den |-> den \div g]

RECURSIVE pow10(_)
pow10(n) == IF n = 0 THEN 1 ELSE 10 * pow10(n - 1)

\* float(value) of a decimal literal, digits with an optional fraction
float(value) ==
    LET parts == split(value, ".")
    IN  IF Len(parts) = 1 THEN fraction(int_of(parts[1]), 1)
        ELSE fraction(int_of(parts[1] \o parts[2]), pow10(Len(parts[2])))

\* sum(values)
RECURSIVE sum(_)
sum(values) ==
    IF Len(values) = 0 THEN fraction(0, 1)
    ELSE LET rest == sum(Tail(values))
         IN  fraction(values[1].num * rest.den + rest.num * values[1].den,
                      values[1].den * rest.den)

\* x / n for a float x and an int n > 0
divide(x, n) == fraction(x.num, x.den * n)

(***************************************************************************)
(* create_maps of t.vect.in.sos and full_maps of r.in.sos, for one         *)
(* observed property (one item of parsed_obs)                              *)
(*                                                                         *)
(* A dict is the sequence of its <<key, value>> items in insertion order,  *)
(* the order in which Python 3 iterates it.  intervals maps a bucket key   *)
(* to the dict of the procedures' value lists.                             *)
(***************************************************************************)

\* range(start, stop, step), step > 0
RECURSIVE range(_, _, _)
range(start, stop, step) ==
    IF start >= stop THEN <<>>
    ELSE <<start>> \o range(start + step, stop, step)

\* a plausible slip: the end of the event time is left out of the range
interval_keys_without_end(s, e, granularity) == range(s, e, granularity)

\* the keys of intervals: range(epoch_s, epoch_e + 1, seconds_granularity)
interval_keys(s, e, granularity) == range(s, e + 1, granularity)

\* lines 251-255: the epoch seconds of the two ends of the event time
parse_event_time(et) ==
    LET plus == split(et, "+")
        start_tm == strptime_iso(plus[1])
        slash == split(plus[2], "/")
        end_tm == strptime_iso(slash[2])
        fail(e) == [status |-> e, epoch_s |-> 0, epoch_e |-> 0]
    IN  IF ~start_tm.ok THEN fail("ValueError")
        ELSE IF Len(plus) < 2 THEN fail("IndexError")
        ELSE IF Len(slash) < 2 THEN fail("IndexError")
        ELSE IF ~end_tm.ok THEN fail("ValueError")
        ELSE [status |-> "ok", epoch_s |-> mktime(start_tm),
              epoch_e |-> mktime(end_tm)]

\* name in d.keys()
has_key(d, k) == \E i \in 1..Len(d) : d[i][1] = k

\* d[k]
get(d, k) == d[CHOOSE i \in 1..Len(d) : d[i][1] = k][2]

\* a plausible slip: the end of the bucket is taken into it
in_interval_closed(interval, t, granularity) ==
    interval <= t /\ t <= interval + granularity

\* interval <= seconds_timestamp < (interval + seconds_granularity)
in_interval(interval, t, granularity) ==
    interval <= t /\ t < interval + granularity

\* the loop over intervals.keys() with its break: the place of the first
\* key, in the order the keys are visited, that takes t; 0 when none does
RECURSIVE scan(_, _, _, _)
scan(order, ivs, t, granularity) ==
    IF Len(order) = 0 THEN 0
    ELSE IF in_interval(ivs[order[1]][1], t, granularity) THEN order[1]
    ELSE scan(Tail(order), ivs, t, granularity)

\* a plausible slip: the value replaces the list instead of joining it
add_value_overwrite(procs, name, v) == dict_update(procs, name, <<v>>)

\* lines 315-319: the value joins the list of its procedure
add_value(procs, name, v) ==
    IF has_key(procs, name)
    THEN dict_update(procs, name, Append(get(procs, name), v))
    ELSE Append(procs, <<name, <<v>>>>)

\* a plausible slip: an observation no bucket takes goes to the last one
assign_value_clamped(ivs, order, name, t, granularity, v) ==
    LET b == scan(order, ivs, t, granularity)
        c == IF b = 0 THEN Len(ivs) ELSE b
    IN  IF c = 0 THEN ivs ELSE [ivs EXCEPT ![c][2] = add_value(@, name, v)]

\* lines 312-320: intervals after the scan for one observation
assign_value(ivs, order, name, t, granularity, v) ==
    LET b == scan(order, ivs, t, granularity)
    IN  IF b = 0 THEN ivs ELSE [ivs EXCEPT ![b][2] = add_value(@, name, v)]

\* the key of the bucket the scan stops at, 0 when it stops at none
found_key(ivs, order, t, granularity) ==
    LET b == scan(order, ivs, t, granularity)
    IN  IF b = 0 THEN 0 ELSE ivs[b][1]

\* the order Python 3 visits the keys of a dict in: that of insertion
insertion_order(d) == [k \in 1..Len(d) |-> k]

\* timestamp[:-4]
drop_last4(s) == SubSeq(s, 1, Len(s) - 4)

\* lines 308-311: the epoch seconds of a time stamp key, -1 for a ValueError
seconds_of(timestamp) ==
    LET tm == strptime_compact(drop_last4(timestamp))
    IN  IF tm.ok THEN mktime(tm) ELSE -1

\* a plausible slip: the sum is divided by one more than the number of values
aggregate_off_by_one(values, method) ==
    IF method = "average" THEN divide(sum(values), Len(values) + 1)
    ELSE sum(values)

\* lines 353-356: sum(values) / len(values), or sum(values)
aggregate(values, method) ==
    IF method = "average" THEN divide(sum(values), Len(values))
    ELSE sum(values)

\* '{}_{}_{}_{}'.format(output, offering, key, timestamp), lines 332-339
bucket_table_name(out, off, k, timestamp) ==
    ReplacePasses(join(<<"_">>, <<out, off, k, timestamp>>))

\* a plausible slip: the test for an empty bucket is left out
bucket_is_written_always(procs) == TRUE

\* len(intervals[interval]) != 0
bucket_is_written(procs) == Len(procs) # 0

(***************************************************************************)
(* Inputs of create_maps                                                   *)
(***************************************************************************)

MaxSpan == 2        \* seconds from the start to the end of the event time
MaxGran == 2        \* seconds_granularity
MaxObs == 2         \* observations of a feature collection

StartSecond == 1    \* the second of 2020-01-01T00:00 the event time starts at

Procs == <<"s1", "s2">>
\* options['method']: parser() lets no other answer through
Methods == {"average", "sum"}
Modules == {"t.vect.in.sos", "r.in.sos"}

Day == <<"2", "0", "2", "0", "-", "0", "1", "-", "0", "1">>
Zone == <<"+", "0", "0", "0", "0">>

\* the ISO time stamp of second n of the first hour of the day
IsoTime(n) ==
    Day \o <<"T", "0", "0", ":">> \o pad2(n \div 60) \o <<":">> \o pad2(n % 60)

\* start/end, as in 2015-06-01T00:00:00+0200/2015-06-03T00:00:00+0200
EventTime(s, e) == IsoTime(s) \o Zone \o <<"/">> \o IsoTime(e) \o Zone

\* the key xml2geojson makes of a row's time stamp
KeyOfSecond(n) == time_stamp_key(IsoTime(n) \o Zone)

\* the value observed by procedure p at second n, as the response has it
ValueText(p, n) == <<digit(n + 1), ".", IF p = 1 THEN "0" ELSE "5">>

RECURSIVE SubsetsUpTo(_, _)
SubsetsUpTo(S, k) ==
    IF k = 0 THEN {{}}
    ELSE LET smaller == SubsetsUpTo(S, k - 1)
         IN  smaller \cup {T \cup {x} : T \in smaller, x \in S}

\* the members of a set of numbers, ascending
RECURSIVE Ascending(_)
Ascending(S) ==
    IF S = {} THEN <<>>
    ELSE LET m == CHOOSE x \in S : \A y \in S : x <= y
         IN  <<m>> \o Ascending(S \ {m})

\* the feature of procedure p observing at the seconds of S: json.loads
\* gives the properties in the order of their sorted keys
FeatureOf(p, S) ==
    [name |-> Procs[p],
     geometry |-> [type |-> "Point", coordinates |-> <<p, p + 1, 0>>],
     series |-> [k \in 1..Cardinality(S) |->
                    <<KeyOfSecond(Ascending(S)[k]),
                      ValueText(p, Ascending(S)[k])>>]]

\* feature collections of both procedures with at most MaxObs observations
\* between the second before the start and the second e + g
DataSets(e, g) ==
    {[p \in 1..Len(Procs) |-> FeatureOf(p, {x[2] : x \in {y \in obs : y[1] = p}})] :
        obs \in SubsetsUpTo((1..Len(Procs)) \X ((StartSecond - 1)..(e + g)),
                            MaxObs)}

\* before the first step of create_maps, the event time not yet read
ScanStart ==
    /\ intervals = <<>>
    /\ fi = 0
    /\ pi = 0
    /\ points = <<>>
    /\ free_cat = 1
    /\ geometries = <<>>
    /\ last = [name |-> None, t |-> 0, found |-> 0]
    /\ bi = 0
    /\ layer = 1
    /\ layers_timestamps = <<>>
    /\ tables = <<>>
    /\ rasters = <<>>

MapsStart ==
    /\ epoch_s = 0
    /\ epoch_e = 0
    /\ ScanStart

MapsInputs ==
    /\ module \in Modules
    /\ options \in {[output |-> <<"o">>, method |-> m] : m \in Methods}
    /\ offering = <<"f", "-", "1">>
    /\ obs_key = <<"a", ":", "t">>
    /\ seconds_granularity \in 1..MaxGran
    /\ \E e \in StartSecond..(StartSecond + MaxSpan) :
          /\ event_time = EventTime(StartSecond, e)
          /\ data \in DataSets(e, seconds_granularity)
    /\ MapsStart
    /\ pcMaps = "start"

\* create_maps is not running
MapsIdle ==
    /\ module = None
    /\ options = [output |-> <<>>, method |-> None]
    /\ offering = <<>>
    /\ obs_key = <<>>
    /\ seconds_granularity = 1
    /\ event_time = <<>>
    /\ data = <<>>
    /\ MapsStart
    /\ pcMaps = "idle"

(***************************************************************************)
(* The steps of create_maps / full_maps                                    *)
(***************************************************************************)

\* t.vect.in.sos 251-255, r.in.sos 401-405
ParseEventTime ==
    /\ pcMaps = "start"
    /\ LET r == parse_event_time(event_time)
       IN  /\ epoch_s' = r.epoch_s
           /\ epoch_e' = r.epoch_e
           /\ pcMaps' = IF r.status = "ok" THEN "intervals" ELSE r.status
    /\ UNCHANGED <<mapsIn, intervals, fi, pi, points, free_cat, geometries,
                   last, bi, mapsOut, namesVars, xmlVars>>
    /\ UNCHANGED otherVars

\* t.vect.in.sos 277-295, r.in.sos 416-424
MakeIntervals ==
    /\ pcMaps = "intervals"
    /\ LET keys == interval_keys(epoch_s, epoch_e, seconds_granularity)
       IN  intervals' = [k \in 1..Len(keys) |-> <<keys[k], <<>>>>]
    /\ free_cat' = 1
    /\ points' = <<>>
    /\ geometries' = <<>>
    /\ pcMaps' = "features"
    /\ UNCHANGED <<mapsIn, epoch_s, epoch_e, fi, pi, last, bi, mapsOut,
                   namesVars, xmlVars>>
    /\ UNCHANGED otherVars

AtEndOfFeature == IF fi = 0 THEN TRUE ELSE pi = Len(data[fi].series)

\* t.vect.in.sos 297-304, r.in.sos 426-435: the next feature
BeginFeature ==
    /\ pcMaps = "features"
    /\ AtEndOfFeature
    /\ fi < Len(data)
    /\ fi' = fi + 1
    /\ pi' = 0
    /\ LET a == data[fi + 1]
       IN  IF module = "t.vect.in.sos"
           THEN /\ IF has_key(points, a.name)
                   THEN UNCHANGED <<points, free_cat>>
                   ELSE /\ points' = Append(points, <<a.name, free_cat>>)
                        /\ free_cat' = free_cat + 1
                /\ UNCHANGED geometries
           ELSE /\ geometries' = dict_update(geometries, a.name,
                                             a.geometry.coordinates)
                /\ UNCHANGED <<points, free_cat>>
    /\ UNCHANGED <<mapsIn, epoch_s, epoch_e, intervals, last, bi, mapsOut,
                   pcMaps, namesVars, xmlVars>>
    /\ UNCHANGED otherVars

\* t.vect.in.sos 306-320, r.in.sos 437-451: the next property of the
\* feature
Assign ==
    /\ pcMaps = "features"
    /\ fi >= 1
    /\ pi < Len(data[fi].series)
    /\ pi' = pi + 1
    /\ LET name == data[fi].name
           value == data[fi].series[pi + 1][2]
           t == seconds_of(data[fi].series[pi + 1][1])
       IN  IF t = -1
           THEN /\ pcMaps' = "ValueError"
                /\ UNCHANGED <<intervals, last>>
           ELSE /\ intervals' = assign_value(intervals,
                                     insertion_order(intervals), name, t,
                                     seconds_granularity, float(value))
                /\ last' = [name |-> name, t |-> t,
                            found |-> found_key(intervals,
                                          insertion_order(intervals), t,
                                          seconds_granularity)]
                /\ UNCHANGED pcMaps
    /\ UNCHANGED <<mapsIn, epoch_s, epoch_e, fi, points, free_cat, geometries,
                   bi, mapsOut, namesVars, xmlVars>>
    /\ UNCHANGED otherVars

\* t.vect.in.sos 322-327: all features are read
EndFeatures ==
    /\ pcMaps = "features"
    /\ AtEndOfFeature
    /\ fi = Len(data)
    /\ pcMaps' = "tables"
    /\ bi' = 0
    /\ layer' = 1
    /\ layers_timestamps' = <<>>
    /\ UNCHANGED <<mapsIn, epoch_s, epoch_e, intervals, fi, pi, points,
                   free_cat, geometries, last, tables, rasters, namesVars,
                   xmlVars>>
    /\ UNCHANGED otherVars

\* r.in.sos 437: what the loop over the properties leaves in value, the
\* value of the last property of the last feature (its name when it has no
\* other property)
stale_value(features) ==
    LET a == features[Len(features)]
    IN  [str |-> IF Len(a.series) = 0 THEN a.name
                 ELSE a.series[Len(a.series)][2]]

\* a plausible slip: the category of a row is its place in the bucket
RowsOfByPlace(procs) ==
    [k \in 1..Len(procs) |->
        <<k, procs[k][1], aggregate(procs[k][2], options.method)>>]

\* the rows of a bucket's table: (category, name, aggregated value)
RowsOf(procs) ==
    [k \in 1..Len(procs) |->
        <<IF module = "t.vect.in.sos" THEN get(points, procs[k][1]) ELSE 0,
          procs[k][1], aggregate(procs[k][2], options.method)>>]

\* t.vect.in.sos 328-364, r.in.sos 453-530: the next key of intervals.
\* With a method that is neither 'average' nor 'sum' t.vect.in.sos has no
\* aggregated_value to insert (UnboundLocalError) once the table is made;
\* r.in.sos writes what the loop over the properties left in value.
Bucket ==
    /\ pcMaps = "tables"
    /\ bi < Len(intervals)
    /\ bi' = bi + 1
    /\ LET interval == intervals[bi + 1][1]
           procs == intervals[bi + 1][2]
           timestamp == strftime_compact(fromtimestamp(interval))
           name == bucket_table_name(options.output, offering, obs_key, timestamp)
           supported == options.method \in {"average", "sum"}
           stale == [k \in 1..Len(procs) |-> <<0, procs[k][1], stale_value(data)>>]
       IN  IF ~bucket_is_written(procs)
           THEN UNCHANGED <<mapsOut, pcMaps>>
           ELSE IF module = "t.vect.in.sos"
           THEN /\ tables' = Append(tables,
                       [bucket |-> interval, name |-> name, layer |-> layer,
                        rows |-> IF supported THEN RowsOf(procs) ELSE <<>>])
                /\ layer' = layer + 1
                /\ layers_timestamps' = Append(layers_timestamps, timestamp)
                /\ pcMaps' = IF supported THEN pcMaps ELSE "UnboundLocalError"
                /\ UNCHANGED rasters
           ELSE /\ tables' = Append(tables,
                       [bucket |-> interval, name |-> name, layer |-> 1,
                        rows |-> IF supported THEN RowsOf(procs) ELSE stale])
                /\ rasters' = Append(rasters, name)
                /\ UNCHANGED <<layer, layers_timestamps, pcMaps>>
    /\ UNCHANGED <<mapsIn, epoch_s, epoch_e, intervals, fi, pi, points,
                   free_cat, geometries, last, namesVars, xmlVars>>
    /\ UNCHANGED otherVars

\* t.vect.in.sos 380-383: the start time of a layer, made of the slices
\* [1:5], [5:7], [7:9], [10:12] and [12:14] of its time stamp
layer_timestamp(timestamp) ==
    SubSeq(timestamp, 2, 5) \o <<"-">> \o SubSeq(timestamp, 6, 7) \o <<"-">>
    \o SubSeq(timestamp, 8, 9) \o <<" ">> \o SubSeq(timestamp, 11, 12)
    \o <<":">> \o SubSeq(timestamp, 13, 14)

\* t.vect.in.sos 369-393: t.register for i in range(1, layers_count)
create_temporal(layers_count, timestamps) ==
    [i \in 1..(layers_count - 1) |->
        [layer |-> i, start |-> layer_timestamp(timestamps[i])]]

\* t.vect.in.sos 366: every key was visited, and create_temporal registers
\* the layers
Finish ==
    /\ pcMaps = "tables"
    /\ bi = Len(intervals)
    /\ pcMaps' = "done"
    /\ registered' = IF module = "t.vect.in.sos"
                     THEN create_temporal(layer, layers_timestamps)
                     ELSE registered
    /\ UNCHANGED <<mapsIn, epoch_s, epoch_e, intervals, fi, pi, points,
                   free_cat, geometries, last, bi, mapsOut, namesVars, xmlVars>>
    /\ UNCHANGED <<mainVars, wideVars, loopVars, regionVars, rowsVars,
                   handleVars>>

(***************************************************************************)
(* The bucket keys and the scan on their own: any event time, any          *)
(* granularity, any time stamp, the keys visited in any order              *)
(***************************************************************************)

ScanMaxSpan == 3    \* seconds from the start to the end of the event time
ScanMaxGran == 3    \* seconds_granularity
MaxScans == 2       \* values the buckets hold in the end

ScanStarts == {0, 1577836800}

ScanInputs ==
    /\ module = None
    /\ options = [output |-> <<>>, method |-> None]
    /\ offering = <<>>
    /\ obs_key = <<>>
    /\ event_time = <<>>
    /\ data = <<>>
    /\ seconds_granularity \in 1..ScanMaxGran
    /\ epoch_s \in ScanStarts
    /\ epoch_e \in epoch_s..(epoch_s + ScanMaxSpan)
    /\ ScanStart
    /\ pcMaps = "intervals"

\* the values all buckets hold
RECURSIVE CountValues(_)
CountValues(ivs) ==
    IF Len(ivs) = 0 THEN 0
    ELSE LET procs == ivs[1][2]
             n[k \in 0..Len(procs)] ==
                 IF k = 0 THEN 0 ELSE n[k - 1] + Len(procs[k][2])
         IN  n[Len(procs)] + CountValues(Tail(ivs))

\* lines 312-320 for any seconds_timestamp, from the second before the
\* start to the second after the end of the last bucket
ScanAny ==
    /\ pcMaps = "features"
    /\ CountValues(intervals) < MaxScans
    /\ \E t \in (epoch_s - 1)..(epoch_e + seconds_granularity + 1),
          order \in Permutations(1..Len(intervals)) :
          /\ intervals' = assign_value(intervals, order, Procs[1], t,
                                       seconds_granularity, fraction(1, 1))
          /\ last' = [name |-> Procs[1], t |-> t,
                      found |-> found_key(intervals, order, t,
                                          seconds_granularity)]
    /\ UNCHANGED <<mapsIn, epoch_s, epoch_e, fi, pi, points, free_cat,
                   geometries, bi, mapsOut, pcMaps, namesVars, xmlVars>>
    /\ UNCHANGED otherVars

(***************************************************************************)
(* main of t.vect.in.sos and r.in.sos for one offering and one observed    *)
(* property: the response is parsed and the maps are made of the result    *)
(***************************************************************************)

Granularities == {30, 60}
Zones == {<<>>, Zone}

\* rows of the response: 5.0 at 00:00:00 and 7.0 at 00:00:30
ScenarioRows(zone) ==
    IsoTime(0) \o zone \o <<",", "5", ".", "0", ";">>
        \o IsoTime(30) \o zone \o <<",", "7", ".", "0">>

ScenarioMember(zone) ==
    [name |-> "sensor-1",
     location |-> [present |-> TRUE, srsName |-> "EPSG:4326",
                   type |-> "Point", coordinates |-> <<1, 2, 0>>],
     quantities |-> << <<"a", ":", "t">> >>,
     textblock |-> [present |-> TRUE, tokenSeparator |-> ",",
                    blockSeparator |-> ";"],
     values |-> [present |-> TRUE, text |-> ScenarioRows(zone)]]

\* the event time 00:00:00/00:01:00 of the day
ScenarioEventTime(zone) == IsoTime(0) \o zone \o <<"/">> \o IsoTime(60) \o zone

ScenarioInputs ==
    /\ \E zone \in Zones : xml_file = <<ScenarioMember(zone)>>
    /\ observed_property = <<"t">>
    /\ import_empty = FALSE
    /\ geojson = NotReturned
    /\ pcXml = "call"
    /\ module \in Modules
    /\ options \in {[output |-> <<"o">>, method |-> m] : m \in Methods}
    /\ offering = <<"f", "-", "1">>
    /\ \E zone \in Zones : event_time = ScenarioEventTime(zone)
    /\ seconds_granularity \in Granularities
    /\ obs_key = <<>>
    /\ data = <<>>
    /\ MapsStart
    /\ pcMaps = "waiting"

\* responses in one CRS with the separators ',' and ';', with and without
\* observations of the property
PlainFiles ==
    {f \in XmlFiles :
        \A i \in 1..Len(f) :
            /\ f[i].location.present
            /\ f[i].location.srsName = "EPSG:4326"
            /\ f[i].textblock = CommaBlock}

\* the response of an offering is about to be parsed; v.in.sos passes its
\* flag -i, the other modules leave import_empty at its default
ParseInputs ==
    /\ xml_file \in PlainFiles
    /\ observed_property \in Properties
    /\ module \in Modules \cup {"v.in.sos"}
    /\ import_empty \in (IF module = "v.in.sos" THEN BOOLEAN ELSE {FALSE})
    /\ geojson = NotReturned
    /\ pcXml = "call"
    /\ options \in {[output |-> <<"o">>, method |-> m] : m \in Methods}
    /\ offering = <<"f", "-", "1">>
    /\ event_time = ScenarioEventTime(Zone)
    /\ seconds_granularity = 60
    /\ obs_key = <<>>
    /\ data = <<>>
    /\ MapsStart
    /\ pcMaps = "waiting"

\* t.vect.in.sos 220-238, r.in.sos 264-291: parsed_obs[prop] goes to
\* create_maps / full_maps; an error of xml2geojson other than an
\* AttributeError is not caught
HandOver ==
    /\ pcXml = "returned"
    /\ pcMaps = "waiting"
    /\ IF geojson.status = "ok"
       THEN /\ obs_key' = observed_property
            /\ data' = geojson.features
            /\ pcMaps' = "start"
       ELSE /\ pcMaps' = geojson.status
            /\ UNCHANGED <<obs_key, data>>
    /\ pcXml' = "idle"
    /\ UNCHANGED <<module, options, offering, event_time, seconds_granularity,
                   epoch_s, epoch_e, intervals, fi, pi, points, free_cat,
                   geometries, last, bi, mapsOut, namesVars, xml_file,
                   observed_property, import_empty, geojson>>
    /\ UNCHANGED otherVars

(***************************************************************************)
(* An invocation of r.in.sos, v.in.sos, t.vect.in.sos or t.rast.in.sos:    *)
(* parser() at the bottom of the file, then main().  No print flag and no  *)
(* -s flag is given.  A request, a parse and create_maps either return or  *)
(* raise; what they compute is left to the parts above.                    *)
(***************************************************************************)

MaxOfferings == 2   \* offerings named on the command line

Programs == {"r.in.sos", "v.in.sos", "t.vect.in.sos", "t.rast.in.sos"}

\* '#% options: average, sum' of the method option
DeclaredMethods == {"average", "sum"}

\* method=... as typed
MethodAnswers == DeclaredMethods \cup {"median"}

\* the offering list o1,...,on
OfferingList(n) == [k \in 1..n |-> <<"o", digit(k)>>]

\* a plausible slip: the method option declares no legal values
parser_accepts_any(answer) == TRUE

\* parser(): an answer that is not among the declared options of its
\* option ends the module with an error before main() is entered
parser_accepts(answer) == answer \in DeclaredMethods

\* soslib.get_target_crs: target is a SpatialReference object, which is
\* never equal to a str, so the branch of grass.fatal is not taken.
\* ImportFromProj4 of the text g.proj prints for an XY location fails: it
\* raises when osgeo uses exceptions and returns an error code, which is
\* not looked at, when it does not.
get_target_crs(xy, exceptions) ==
    IF xy /\ exceptions THEN "RuntimeError" ELSE "SpatialReference"

\* a plausible slip: a failed request is skipped and the loop goes on
fetch_next_skip(ok) == IF ok THEN "parse" ELSE "loop"

\* try: service.get_observation(...) except: grass.fatal(...)
fetch_next(ok) == IF ok THEN "parse" ELSE "fatal"

\* v.in.sos 274: return 0 stands in the body of the loop over the offerings
returns_in_loop(m) == m = "v.in.sos"

\* r.in.sos 239, v.in.sos 215: target = soslib.get_target_crs()
asks_target_crs(m) == m \in {"r.in.sos", "v.in.sos"}

MainInputs ==
    /\ program \in Programs
    /\ running = program
    /\ opt_method \in MethodAnswers
    /\ opt_offering \in {OfferingList(n) : n \in 0..MaxOfferings}
    /\ xy_location \in BOOLEAN
    /\ osr_exceptions \in BOOLEAN
    /\ off_k = 0
    /\ log = <<>>
    /\ status = "none"
    /\ rast_status = "none"
    /\ pcMain = "parser"

\* no module is invoked
MainIdle ==
    /\ program = None
    /\ running = None
    /\ opt_method = None
    /\ opt_offering = <<>>
    /\ xy_location = FALSE
    /\ osr_exceptions = FALSE
    /\ off_k = 0
    /\ log = <<>>
    /\ status = "none"
    /\ rast_status = "none"
    /\ pcMain = "idle"


\* options, flags = parser()
Parser ==
    /\ pcMain = "parser"
    /\ IF parser_accepts(opt_method)
       THEN /\ pcMain' = IF running = "t.rast.in.sos" THEN "import"
                         ELSE "service"
            /\ UNCHANGED <<status, rast_status>>
       ELSE /\ status' = "parser error"
            /\ rast_status' = IF running = "t.rast.in.sos"
                              THEN "parser error" ELSE rast_status
            /\ pcMain' = IF running = "t.rast.in.sos" THEN "finished"
                         ELSE "ended"
    /\ UNCHANGED <<mainIn, running, off_k, log, namesVars, xmlVars, mapsVars>>
    /\ UNCHANGED <<wideVars, lateVars>>

\* t.rast.in.sos 187-193: run_command('r.in.sos', flags=fl, **options)
RunImport ==
    /\ pcMain = "import"
    /\ running' = "r.in.sos"
    /\ pcMain' = "parser"
    /\ UNCHANGED <<mainIn, off_k, log, status, rast_status, namesVars, xmlVars,
                   mapsVars>>
    /\ UNCHANGED <<wideVars, lateVars>>

\* r.in.sos 197-237, v.in.sos 192-213, t.vect.in.sos 179-199: the service
\* object is made, which asks the server for its capabilities, and
\* check_missing_params raises when no offering is given
Service ==
    /\ pcMain = "service"
    /\ log' = Append(log, <<"capabilities", <<>>>>)
    /\ IF opt_offering = <<>>
       THEN /\ status' = "AttributeError"
            /\ pcMain' = "ended"
       ELSE /\ pcMain' = IF asks_target_crs(running) THEN "target" ELSE "loop"
            /\ UNCHANGED status
    /\ UNCHANGED <<mainIn, running, off_k, rast_status, namesVars, xmlVars,
                   mapsVars>>
    /\ UNCHANGED <<wideVars, lateVars>>

\* r.in.sos 239, v.in.sos 215-218
TargetCrs ==
    /\ pcMain = "target"
    /\ LET target == get_target_crs(xy_location, osr_exceptions)
       IN  IF target = "SpatialReference"
           THEN /\ pcMain' = "loop"
                /\ UNCHANGED status
           ELSE /\ status' = target
                /\ pcMain' = "ended"
    /\ UNCHANGED <<mainIn, running, off_k, log, rast_status, namesVars, xmlVars,
                   mapsVars>>
    /\ UNCHANGED <<wideVars, lateVars>>

\* for off in options['offering'].split(','): the next offering, or the
\* return 0 behind the loop
NextOffering ==
    /\ pcMain = "loop"
    /\ IF off_k < Len(opt_offering)
       THEN /\ off_k' = off_k + 1
            /\ pcMain' = "fetch"
            /\ UNCHANGED status
       ELSE /\ status' = "ok"
            /\ pcMain' = "ended"
            /\ UNCHANGED off_k
    /\ UNCHANGED <<mainIn, running, log, rast_status, namesVars, xmlVars,
                   mapsVars>>
    /\ UNCHANGED <<wideVars, lateVars>>

\* r.in.sos 251-262, v.in.sos 230-242, t.vect.in.sos 207-218: the request
\* returns the observations or raises
Fetch ==
    /\ pcMain = "fetch"
    /\ \E ok \in BOOLEAN :
          /\ log' = Append(log, <<IF ok THEN "request" ELSE "request failed",
                                  opt_offering[off_k]>>)
          /\ IF fetch_next(ok) = "fatal"
             THEN /\ status' = "fatal"
                  /\ pcMain' = "ended"
             ELSE /\ pcMain' = fetch_next(ok)
                  /\ UNCHANGED status
    /\ UNCHANGED <<mainIn, running, off_k, rast_status, namesVars, xmlVars,
                   mapsVars>>
    /\ UNCHANGED <<wideVars, lateVars>>

\* r.in.sos 264-288, v.in.sos 244-268, t.vect.in.sos 220-236: the response
\* is parsed for every observed property, or the parser raises
Parse ==
    /\ pcMain = "parse"
    /\ \E ok \in BOOLEAN :
          /\ log' = Append(log, <<IF ok THEN "parse" ELSE "parse failed",
                                  opt_offering[off_k]>>)
          /\ IF ok
             THEN /\ pcMain' = "maps"
                  /\ UNCHANGED status
             ELSE /\ status' = "error"
                  /\ pcMain' = "ended"
    /\ UNCHANGED <<mainIn, running, off_k, rast_status, namesVars, xmlVars,
                   mapsVars>>
    /\ UNCHANGED <<wideVars, lateVars>>

\* r.in.sos 290-291, v.in.sos 270-274, t.vect.in.sos 238: create_maps
\* writes the maps of the offering, or raises
CreateMaps ==
    /\ pcMain = "maps"
    /\ \E ok \in BOOLEAN :
          /\ log' = Append(log, <<IF ok THEN "maps" ELSE "maps failed",
                                  opt_offering[off_k]>>)
          /\ IF ~ok
             THEN /\ status' = "error"
                  /\ pcMain' = "ended"
             ELSE IF returns_in_loop(running)
             THEN /\ status' = "ok"
                  /\ pcMain' = "ended"
             ELSE /\ pcMain' = "loop"
                  /\ UNCHANGED status
    /\ UNCHANGED <<mainIn, running, off_k, rast_status, namesVars, xmlVars,
                   mapsVars>>
    /\ UNCHANGED <<wideVars, lateVars>>

\* t.rast.in.sos 192-224: a failure of r.in.sos is caught by the bare
\* except and main returns 0; after a success the space time dataset of
\* every offering is registered and main returns 0
ImportReturns ==
    /\ pcMain = "ended"
    /\ program = "t.rast.in.sos"
    /\ running = "r.in.sos"
    /\ running' = "t.rast.in.sos"
    /\ log' = IF status = "ok"
              THEN log \o <<<<"capabilities", <<>>>>>>
                       \o [k \in 1..Len(opt_offering) |->
                              <<"strds", opt_offering[k]>>]
              ELSE log
    /\ rast_status' = "ok"
    /\ pcMain' = "finished"
    /\ UNCHANGED <<mainIn, off_k, status, namesVars, xmlVars, mapsVars>>
    /\ UNCHANGED <<wideVars, lateVars>>

(***************************************************************************)
(* maps_rows_sensors of v.in.sos (flag -l) for one observed property: one  *)
(* table with a row for each procedure and a column for each bucket        *)
(***************************************************************************)

ColumnLimit == 2000     \* len(cols) > 2000

\* None in a row
Null == [num |-> 0, den |-> 0]

\* cols as line 428 sets it
BaseColumns == << <<<<"c", "a", "t">>, "INTEGER PRIMARY KEY">>,
                  <<<<"n", "a", "m", "e">>, "VARCHAR">> >>

\* (u'%s' % timestamp2, 'DOUBLE'), lines 469-474
column_of(interval) == <<strftime_compact(fromtimestamp(interval)), "DOUBLE">>

\* seq.index(x), for an x that is in seq
index(seq, x) ==
    CHOOSE k \in 1..Len(seq) : seq[k] = x /\ \A j \in 1..(k - 1) : seq[j] # x

\* lines 457-475: one property of a feature that is not its name
read_property(st, name, timestamp, value, granularity) ==
    LET t == seconds_of(timestamp)
        order == insertion_order(st.intervals)
        b == scan(order, st.intervals, t, granularity)
    IN  IF t = -1 THEN [st EXCEPT !.status = "ValueError"]
        ELSE IF b = 0 THEN st
        ELSE [st EXCEPT
                 !.intervals = assign_value(st.intervals, order, name, t,
                                            granularity, float(value)),
                 !.cols = IF /\ ~has_key(st.intervals[b][2], name)
                             /\ \A k \in 1..Len(st.cols) :
                                   st.cols[k] # column_of(st.intervals[b][1])
                          THEN Append(st.cols, column_of(st.intervals[b][1]))
                          ELSE st.cols]

RECURSIVE read_properties(_, _, _, _)
read_properties(st, name, series, granularity) ==
    IF Len(series) = 0 \/ st.status # "ok" THEN st
    ELSE read_properties(
             read_property(st, name, series[1][1], series[1][2], granularity),
             name, Tail(series), granularity)

\* lines 439-479: one feature.  empty stays True when the feature has no
\* property but its name, and value is then the name
read_feature(st, a, granularity) ==
    LET known == has_key(st.points, a.name)
        st1 == IF known THEN st
               ELSE [st EXCEPT !.points = Append(st.points,
                                                 <<a.name, st.free_cat>>),
                               !.free_cat = st.free_cat + 1]
        st2 == read_properties(st1, a.name, a.series, granularity)
    IN  IF st2.status = "ok" /\ Len(a.series) = 0
        THEN [st2 EXCEPT !.empty_procs = Append(st2.empty_procs, a.name)]
        ELSE st2

RECURSIVE read_features(_, _, _)
read_features(st, features, granularity) ==
    IF Len(features) = 0 \/ st.status # "ok" THEN st
    ELSE read_features(read_feature(st, features[1], granularity),
                       Tail(features), granularity)

\* a plausible slip: the warning is given from 2000 columns on
column_guard_at_limit(n) == n >= ColumnLimit

\* line 481
column_guard(n) == n > ColumnLimit

\* lines 511-513, 529-531: [None] * len(cols) with the category and the name
new_insert(cat, name, ncols) ==
    <<cat, name>> \o [c \in 1..(ncols - 2) |-> Null]

\* lines 510-514
RECURSIVE empty_inserts(_, _, _, _)
empty_inserts(ins, procs, ncols, pts) ==
    IF Len(procs) = 0 THEN ins
    ELSE empty_inserts(
             dict_update(ins, procs[1],
                         new_insert(get(pts, procs[1]), procs[1], ncols)),
             Tail(procs), ncols, pts)

\* lines 522-537: the procedures of one bucket
RECURSIVE bucket_inserts(_, _, _, _, _, _)
bucket_inserts(ins, procs, column, columns, pts, method) ==
    IF Len(procs) = 0 THEN ins
    ELSE LET name == procs[1][1]
             aggregated_value == aggregate(procs[1][2], method)
             row == IF has_key(ins, name) THEN get(ins, name)
                    ELSE new_insert(get(pts, name), name, Len(columns))
         IN  bucket_inserts(
                 <<>> \o dict_update(ins, name,
                     [row EXCEPT ![index(columns, column)] = aggregated_value]),
                 Tail(procs), column, columns, pts, method)

\* lines 517-537: the buckets lo..hi in their order, the range halved so that
\* a long list of buckets is walked without a deep nesting
RECURSIVE interval_inserts_from(_, _, _, _, _, _, _)
interval_inserts_from(ins, ivs, lo, hi, columns, pts, method) ==
    IF lo > hi THEN ins
    ELSE IF lo = hi
    THEN IF Len(ivs[lo][2]) = 0 THEN ins
         ELSE bucket_inserts(ins, ivs[lo][2], column_of(ivs[lo][1]),
                             columns, pts, method)
    ELSE LET mid == (lo + hi) \div 2
             first_half == interval_inserts_from(ins, ivs, lo, mid, columns,
                                                 pts, method)
         IN  \* the test has first_half evaluated before the second half
             IF Len(first_half) >= 0
             THEN interval_inserts_from(first_half, ivs, mid + 1, hi, columns,
                                        pts, method)
             ELSE first_half

interval_inserts(ins, ivs, columns, pts, method) ==
    interval_inserts_from(ins, ivs, 1, Len(ivs), columns, pts, method)

WideStart ==
    /\ module = "v.in.sos"
    /\ options \in {[output |-> <<"o">>, method |-> m] : m \in Methods}
    /\ offering = <<"f", "-", "1">>
    /\ obs_key = <<"a", ":", "t">>
    /\ fi = 0
    /\ pi = 0
    /\ geometries = <<>>
    /\ last = [name |-> None, t |-> 0, found |-> 0]
    /\ bi = 0
    /\ layer = 1
    /\ layers_timestamps = <<>>
    /\ tables = <<>>
    /\ rasters = <<>>
    /\ pcMaps = "idle"
    /\ inserts = <<>>
    /\ warned = FALSE

\* maps_rows_sensors is called: create_maps has read the event time
WideInputs ==
    /\ WideStart
    /\ seconds_granularity \in 1..MaxGran
    /\ \E e \in StartSecond..(StartSecond + MaxSpan) :
          /\ event_time = EventTime(StartSecond, e)
          /\ data \in DataSets(e, seconds_granularity)
    /\ epoch_s = parse_event_time(event_time).epoch_s
    /\ epoch_e = parse_event_time(event_time).epoch_e
    /\ intervals = <<>>
    /\ points = <<>>
    /\ free_cat = 1
    /\ cols = <<>>
    /\ empty_procs = <<>>
    /\ pcWide = "features"

\* numbers of columns around the limit
ColumnCounts == {ColumnLimit, ColumnLimit + 1}

\* maps_rows_sensors at line 481, after the features of a run in which
\* procedure s1 has one observation in each of n - 2 buckets of one second
WideAtGuard ==
    /\ WideStart
    /\ seconds_granularity = 1
    /\ \E n \in ColumnCounts :
          /\ event_time = EventTime(0, n - 3)
          /\ data = <<[name |-> Procs[1],
                       geometry |-> [type |-> "Point",
                                     coordinates |-> <<1, 2, 0>>],
                       series |-> [k \in 1..(n - 2) |->
                                      <<KeyOfSecond(k - 1), ValueText(1, 0)>>]]>>
    /\ epoch_s = parse_event_time(event_time).epoch_s
    /\ epoch_e = parse_event_time(event_time).epoch_e
    /\ intervals = [k \in 1..(epoch_e - epoch_s + 1) |->
                       <<epoch_s + k - 1,
                         << <<Procs[1], <<float(ValueText(1, 0))>>>> >> >>]
    /\ cols = BaseColumns \o [k \in 1..(epoch_e - epoch_s + 1) |->
                                 column_of(epoch_s + k - 1)]
    /\ points = << <<Procs[1], 1>> >>
    /\ free_cat = 2
    /\ empty_procs = <<>>
    /\ pcWide = "guard"

\* maps_rows_sensors is not running
WideIdle ==
    /\ cols = <<>>
    /\ empty_procs = <<>>
    /\ inserts = <<>>
    /\ warned = FALSE
    /\ pcWide = "idle"

\* lines 420-479
ReadFeatures ==
    /\ pcWide = "features"
    /\ LET keys == interval_keys(epoch_s, epoch_e, seconds_granularity)
           st0 == [status |-> "ok",
                   intervals |-> [k \in 1..Len(keys) |-> <<keys[k], <<>>>>],
                   cols |-> BaseColumns, empty_procs |-> <<>>,
                   points |-> <<>>, free_cat |-> free_cat]
           st == read_features(st0, data, seconds_granularity)
       IN  /\ intervals' = st.intervals
           /\ cols' = st.cols
           /\ empty_procs' = st.empty_procs
           /\ points' = st.points
           /\ free_cat' = st.free_cat
           /\ pcWide' = IF st.status = "ok" THEN "guard" ELSE st.status
    /\ UNCHANGED <<mapsIn, epoch_s, epoch_e, fi, pi, geometries, last, bi,
                   mapsOut, pcMaps, inserts, warned, namesVars, xmlVars,
                   mainVars,
                   lateVars>>

\* lines 481-486
ColumnGuard ==
    /\ pcWide = "guard"
    /\ warned' = column_guard(Len(cols))
    /\ pcWide' = "table"
    /\ UNCHANGED <<mapsVars, cols, empty_procs, inserts, namesVars, xmlVars,
                   mainVars,
                   lateVars>>

\* lines 488-507
CreateTable ==
    /\ pcWide = "table"
    /\ tables' = <<[name |-> standardize_table_name(
                                <<options.output, offering, obs_key>>),
                    layer |-> layer, cols |-> cols, rows |-> <<>>]>>
    /\ inserts' = <<>>
    /\ pcWide' = "inserts"
    /\ UNCHANGED <<mapsIn, epoch_s, epoch_e, intervals, fi, pi, points,
                   free_cat, geometries, last, bi, rasters, layer,
                   layers_timestamps, pcMaps, cols, empty_procs, warned,
                   namesVars, xmlVars, mainVars,
                   lateVars>>

\* lines 509-537
MakeInserts ==
    /\ pcWide = "inserts"
    /\ inserts' = interval_inserts(
                      empty_inserts(inserts, empty_procs, Len(cols), points),
                      intervals, cols, points, options.method)
    /\ pcWide' = "rows"
    /\ UNCHANGED <<mapsVars, cols, empty_procs, warned, namesVars, xmlVars,
                   mainVars,
                   lateVars>>

\* lines 539-543
InsertRows ==
    /\ pcWide = "rows"
    /\ tables' = [tables EXCEPT
                     ![1].rows = [k \in 1..Len(inserts) |-> inserts[k][2]]]
    /\ layer' = layer + 1
    /\ pcWide' = "done"
    /\ UNCHANGED <<mapsIn, epoch_s, epoch_e, intervals, fi, pi, points,
                   free_cat, geometries, last, bi, rasters, layers_timestamps,
                   pcMaps, cols, empty_procs, inserts, warned, namesVars,
                   xmlVars, mainVars,
                   lateVars>>

(***************************************************************************)
(* The loop over the offerings in main of r.in.sos and t.vect.in.sos:      *)
(* every request succeeds, and what a response is parsed to is known by    *)
(* the offering and the observed property it was parsed for                *)
(***************************************************************************)

LoopPrograms == {"r.in.sos", "t.vect.in.sos"}

\* the lists of observed properties an offering may have
PropertyLists == {<<"t">>, <<"p">>, <<"t", "p">>, <<"p", "t">>}

\* parsed_obs.update({prop: xml2geojson(obs, prop)}) for the properties in
\* turn; obs is the response of offering off
RECURSIVE update_parsed_obs(_, _, _)
update_parsed_obs(parsed, off, properties) ==
    IF Len(properties) = 0 THEN parsed
    ELSE update_parsed_obs(
             dict_update(parsed, properties[1], <<off, properties[1]>>),
             off, Tail(properties))

LoopInputs ==
    /\ program \in LoopPrograms
    /\ running = program
    /\ opt_method \in DeclaredMethods
    /\ opt_offering \in {OfferingList(n) : n \in 0..MaxOfferings}
    /\ offered \in [1..Len(opt_offering) -> PropertyLists]
    /\ parsed_obs = <<>>
    /\ xy_location = FALSE
    /\ osr_exceptions = FALSE
    /\ off_k = 0
    /\ log = <<>>
    /\ status = "none"
    /\ rast_status = "none"
    /\ pcMain = "offerings"

\* the loop of main is not running
LoopIdle ==
    /\ offered = <<>>
    /\ parsed_obs = <<>>

\* for off in options['offering'].split(','), the request included
\* (r.in.sos 241-262, t.vect.in.sos 201-218); return 0 after the last pass.
\* parsed_obs was created before the loop (r.in.sos 197, t.vect.in.sos 179)
\* and a pass begins with what the last one left in it
OfferingPass ==
    /\ pcMain = "offerings"
    /\ IF off_k < Len(opt_offering)
       THEN /\ off_k' = off_k + 1
            /\ pcMain' = "properties"
            /\ UNCHANGED status
       ELSE /\ status' = "ok"
            /\ pcMain' = "ended"
            /\ UNCHANGED off_k
    /\ UNCHANGED <<mainIn, running, log, rast_status, loopVars, wideVars,
                   namesVars, xmlVars, mapsVars,
                   registered, regionVars, rowsVars, handleVars>>

\* r.in.sos 264-270, t.vect.in.sos 220-224: the response is parsed for
\* each observed property of the offering
ParseProperties ==
    /\ pcMain = "properties"
    /\ parsed_obs' = update_parsed_obs(parsed_obs, opt_offering[off_k],
                                       offered[off_k])
    /\ pcMain' = "create_maps"
    /\ UNCHANGED <<mainIn, running, off_k, log, status, rast_status, offered,
                   wideVars, namesVars, xmlVars, mapsVars,
                   registered, regionVars, rowsVars, handleVars>>

\* r.in.sos 290-291, t.vect.in.sos 238: create_maps(parsed_obs, off, ...)
CallCreateMaps ==
    /\ pcMain = "create_maps"
    /\ log' = Append(log, <<"create_maps", opt_offering[off_k], parsed_obs>>)
    /\ pcMain' = "offerings"
    /\ UNCHANGED <<mainIn, running, off_k, status, rast_status, loopVars,
                   wideVars, namesVars, xmlVars, mapsVars,
                   registered, regionVars, rowsVars, handleVars>>

\* nothing is registered
TemporalIdle == registered = <<>>

(***************************************************************************)
(* The region r.in.sos computes when no bounding box is given: full_maps   *)
(* for the procedures of a bucket, and with the same statements            *)
(* maps_without_observations for the procedures of an offering.            *)
(* Coordinates and bounds are counted in halves of a map unit, so that     *)
(* resolution / 2 is the number resolution.                                *)
(***************************************************************************)

MaxPoints == 2          \* procedures written to one map
MaxResolution == 2      \* map units

CoordsX == {-1, 0, 1}
CoordsY == {-2, -1, 0, 1}

\* n = None, s = None, e = None, w = None
NoRegion == [none |-> TRUE, n |-> 0, s |-> 0, e |-> 0, w |-> 0]

RECURSIVE PointLists(_)
PointLists(k) ==
    IF k = 0 THEN {<<>>}
    ELSE {<<>>} \cup {<<pt>> \o rest : pt \in CoordsX \X CoordsY,
                                       rest \in PointLists(k - 1)}

\* not n: n is None or 0.0
not_n(reg) == reg.none \/ reg.n = 0

\* r.in.sos 496-508 (and 370-381): the region after the procedure at
\* (x, y) is written
extend_region(reg, x, y, res) ==
    IF not_n(reg)
    THEN [none |-> FALSE, n |-> y + res, s |-> y - res, e |-> x + res,
          w |-> x - res]
    ELSE [none |-> FALSE,
          n |-> IF y >= reg.n THEN y + res ELSE reg.n,
          s |-> IF y <= reg.s THEN y - res ELSE reg.s,
          e |-> IF x >= reg.e THEN x + res ELSE reg.e,
          w |-> IF x <= reg.w THEN x - res ELSE reg.w]

RegionInputs ==
    /\ resolution \in 1..MaxResolution
    /\ geometry_list \in PointLists(MaxPoints) \ {<<>>}
    /\ gi = 0
    /\ region = NoRegion
    /\ pcRegion = "write"

\* no region is computed
RegionIdle ==
    /\ resolution = 1
    /\ geometry_list = <<>>
    /\ gi = 0
    /\ region = NoRegion
    /\ pcRegion = "idle"

\* r.in.sos 481-508: one pass of the loop over the procedures
WriteProcedure ==
    /\ pcRegion = "write"
    /\ gi < Len(geometry_list)
    /\ gi' = gi + 1
    /\ region' = extend_region(region, geometry_list[gi + 1][1],
                               geometry_list[gi + 1][2], resolution)
    /\ UNCHANGED <<resolution, geometry_list, pcRegion, namesVars, xmlVars,
                   mapsVars, mainVars, wideVars, loopVars, registered,
                   rowsVars, handleVars>>

\* r.in.sos 510-517: the map is closed and g.region is run
SetRegion ==
    /\ pcRegion = "write"
    /\ gi = Len(geometry_list)
    /\ pcRegion' = "done"
    /\ UNCHANGED <<resolution, geometry_list, gi, region, namesVars, xmlVars,
                   mapsVars, mainVars, wideVars, loopVars, registered,
                   rowsVars, handleVars>>

(***************************************************************************)
(* maps_rows_timestamps of v.in.sos (no flag -l): a table for each         *)
(* procedure, a row for each bucket, a column for each observed property.  *)
(* new.table is the table linked at the layer the map is opened with;      *)
(* db.select and db.execute name their table.  Vect_map_add_dblink        *)
(* refuses a Link at a layer that has one already; the run then ends or    *)
(* goes on with the table of that layer, as the library decides.           *)
(***************************************************************************)

FieldT == <<"a", ":", "t">>
FieldP == <<"a", ":", "p">>

\* the seconds a response has rows of, within the event time
RowSeconds == {1, 2}

\* the value of field j in the row of second n
RowValue(j, n) == <<digit(n), ".", digit(j)>>

\* the member of procedure i with the fields q and a row for each second
\* of S
RowsMember(i, q, S) ==
    [name |-> ProcName(i),
     location |-> [present |-> TRUE, srsName |-> "EPSG:4326",
                   type |-> "Point", coordinates |-> <<i, i + 1, 0>>],
     quantities |-> q,
     textblock |-> CommaBlock,
     values |-> [present |-> TRUE,
                 text |-> join(<<";">>,
                     [r \in 1..Cardinality(S) |->
                         join(<<",">>,
                              <<IsoTime(Ascending(S)[r]) \o Zone>>
                              \o [j \in 1..Len(q) |->
                                     RowValue(j, Ascending(S)[r])])])]]

\* responses of one or two procedures
RowsFiles ==
    LET member(i) == {RowsMember(i, q, S) :
                         q \in {<<FieldT>>, <<FieldP>>, <<FieldT, FieldP>>},
                         S \in SUBSET RowSeconds}
    IN  {<<m>> : m \in member(1)}
        \cup {<<m1, m2>> : m1 \in member(1), m2 \in member(2)}

\* v.in.sos 244-249: parsed_obs of the response, for the properties in turn
parse_response(members, properties, empty) ==
    [k \in 1..Len(properties) |->
        <<properties[k], xml2geojson(members, properties[k], empty).features>>]

\* lines 585-587
rows_columns(properties) ==
    <<<<<<"c", "o", "n", "n", "e", "c", "t", "i", "o", "n">>, "INTEGER">>,
      <<<<"t", "i", "m", "e", "s", "t", "a", "m", "p">>, "VARCHAR">>>>
    \o [k \in 1..Len(properties) |-> <<properties[k], "DOUBLE">>]

\* new.dblinks.by_name(name): the place of the table, 0 when there is none
by_name(tabs, tname) ==
    IF \E k \in 1..Len(tabs) : tabs[k].name = tname
    THEN CHOOSE k \in 1..Len(tabs) : tabs[k].name = tname
    ELSE 0

\* the place of the table linked at layer l, 0 when there is none
by_layer(tabs, l) ==
    IF \E k \in 1..Len(tabs) : tabs[k].layer = l
    THEN CHOOSE k \in 1..Len(tabs) : tabs[k].layer = l
    ELSE 0

\* lines 609-632: the buckets of one feature
RECURSIVE feature_intervals(_, _, _, _)
feature_intervals(ivs, fname, series, granularity) ==
    IF Len(series) = 0 THEN ivs
    ELSE feature_intervals(
             assign_value(ivs, insertion_order(ivs), fname,
                          seconds_of(series[1][1]), granularity,
                          float(series[1][2])),
             fname, Tail(series), granularity)

\* SELECT COUNT(*) FROM table WHERE timestamp="..."
count_rows(rows, timestamp) ==
    Cardinality({r \in 1..Len(rows) : rows[r][2] = timestamp})

\* UPDATE table SET key=value WHERE timestamp="..."
update_rows(rows, c, value, timestamp) ==
    [r \in 1..Len(rows) |->
        IF rows[r][2] = timestamp THEN [rows[r] EXCEPT ![c] = value]
        ELSE rows[r]]

\* lines 693-701: the table existed and has a row of the time stamp
row_is_there(yet_existing, rows, timestamp) ==
    yet_existing /\ count_rows(rows, timestamp) # 0

\* lines 688-716: the buckets of the feature, in their order
RECURSIVE interval_rows(_, _, _, _, _, _, _, _)
interval_rows(tabs, ivs, tname, yet_existing, layer_open, key, columns, pts) ==
    IF Len(ivs) = 0 THEN tabs
    ELSE IF Len(ivs[1][2]) = 0
    THEN interval_rows(tabs, Tail(ivs), tname, yet_existing, layer_open, key,
                       columns, pts)
    ELSE LET timestamp == strftime_compact(fromtimestamp(ivs[1][1]))
             pname == ivs[1][2][1][1]
             aggregated_value == aggregate(ivs[1][2][1][2], options.method)
             c == index(columns, <<key, "DOUBLE">>)
             t == by_name(tabs, tname)
             l == by_layer(tabs, layer_open)
             insert == [new_insert(get(pts, pname), timestamp, Len(columns))
                           EXCEPT ![c] = aggregated_value]
         IN  interval_rows(
                 IF row_is_there(yet_existing, tabs[t].rows, timestamp)
                 THEN [tabs EXCEPT
                          ![t].rows = update_rows(@, c, aggregated_value,
                                                  timestamp)]
                 ELSE [tabs EXCEPT ![l].rows = Append(@, insert)],
                 Tail(ivs), tname, yet_existing, layer_open, key, columns, pts)

RowsInputs ==
    /\ module = "v.in.sos"
    /\ options \in {[output |-> <<"o">>, method |-> m] : m \in Methods}
    /\ offering = <<"f", "-", "1">>
    /\ event_time = EventTime(1, 2)
    /\ seconds_granularity \in {1, 2}
    /\ epoch_s = parse_event_time(event_time).epoch_s
    /\ epoch_e = parse_event_time(event_time).epoch_e
    /\ xml_file \in RowsFiles
    /\ import_empty \in BOOLEAN
    /\ observed_property = <<>>
    /\ geojson = NotReturned
    /\ pcXml = "idle"
    /\ obs_props \in {<<FieldT, FieldP>>, <<FieldP, FieldT>>}
    /\ parsed_obs = parse_response(xml_file, obs_props, import_empty)
    /\ offered = <<>>
    /\ obs_key = <<>>
    /\ data = <<>>
    /\ ScanStart
    /\ pcMaps = "idle"
    /\ empty_procs = <<>>
    /\ ki = 0
    /\ cur_layer = 1
    /\ pcRows = "properties"

\* maps_rows_timestamps is not running
RowsIdle ==
    /\ obs_props = <<>>
    /\ ki = 0
    /\ cur_layer = 1
    /\ pcRows = "idle"

\* lines 569-599: the names of the properties are standardized, and then
\* for key, observation in parsed_obs.items(); new.close() after the last
NextProperty ==
    /\ pcRows = "properties"
    /\ IF ki < Len(parsed_obs)
       THEN /\ ki' = ki + 1
            /\ obs_key' = standardize_table_name(<<parsed_obs[ki + 1][1]>>)
            /\ data' = parsed_obs[ki + 1][2]
            /\ empty_procs' = <<>>
            /\ cur_layer' = layer
            /\ fi' = 0
            /\ pcRows' = "features"
       ELSE /\ pcRows' = "done"
            /\ UNCHANGED <<ki, obs_key, data, empty_procs, cur_layer, fi>>
    /\ obs_props' = IF ki = 0
                    THEN [k \in 1..Len(obs_props) |->
                             standardize_table_name(<<obs_props[k]>>)]
                    ELSE obs_props
    /\ UNCHANGED <<module, options, offering, event_time, seconds_granularity,
                   epoch_s, epoch_e, intervals, pi, points, free_cat,
                   geometries, last, bi, mapsOut, pcMaps, cols, inserts,
                   warned, pcWide, namesVars, xmlVars, mainVars, loopVars,
                   registered, regionVars, handleVars>>

\* lines 601-719: one feature of the property
FeatureRows ==
    /\ pcRows = "features"
    /\ fi < Len(data)
    /\ fi' = fi + 1
    /\ LET a == data[fi + 1]
           tname == standardize_table_name(<<options.output, offering, a.name>>)
           keys == interval_keys(epoch_s, epoch_e, seconds_granularity)
           ivs == feature_intervals([k \in 1..Len(keys) |-> <<keys[k], <<>>>>],
                                    a.name, a.series, seconds_granularity)
           columns == rows_columns(obs_props)
           yet_existing == by_name(tables, tname) # 0
           linked == IF yet_existing THEN tables
                     ELSE Append(tables, [name |-> tname, layer |-> cur_layer,
                                          cols |-> columns, rows |-> <<>>])
           pts == IF has_key(points, a.name) THEN points
                  ELSE Append(points, <<a.name, free_cat>>)
           refused == ~yet_existing /\ by_layer(tables, cur_layer) # 0
       IN  /\ intervals' = ivs
           /\ empty_procs' = IF Len(a.series) = 0
                             THEN Append(empty_procs, a.name) ELSE empty_procs
           /\ \/ /\ refused
                 /\ pcRows' = "LinkError"
                 /\ UNCHANGED <<tables, points, free_cat, cur_layer>>
              \/ /\ refused
                 /\ points' = pts
                 /\ free_cat' = IF has_key(points, a.name) THEN free_cat
                                ELSE free_cat + 1
                 /\ tables' = interval_rows(tables, ivs, tname, FALSE,
                                            cur_layer, obs_key, columns, pts)
                 /\ cur_layer' = cur_layer + 1
                 /\ UNCHANGED pcRows
              \/ /\ ~refused
                 /\ IF by_layer(linked, cur_layer) = 0
                    THEN /\ pcRows' = "OpenError"
                         /\ UNCHANGED <<tables, points, free_cat, cur_layer>>
                    ELSE /\ points' = pts
                         /\ free_cat' = IF has_key(points, a.name)
                                        THEN free_cat ELSE free_cat + 1
                         /\ tables' = interval_rows(linked, ivs, tname,
                                                    yet_existing, cur_layer,
                                                    obs_key, columns, pts)
                         /\ cur_layer' = cur_layer + 1
                         /\ UNCHANGED pcRows
    /\ UNCHANGED <<mapsIn, epoch_s, epoch_e, pi, geometries, last, bi, rasters,
                   layer, layers_timestamps, pcMaps, cols, inserts, warned,
                   pcWide, obs_props, ki, namesVars, xmlVars, mainVars,
                   loopVars, registered, regionVars, handleVars>>

\* the features of the property are all read
EndProperty ==
    /\ pcRows = "features"
    /\ fi = Len(data)
    /\ pcRows' = "properties"
    /\ UNCHANGED <<mapsVars, wideVars, obs_props, ki, cur_layer, namesVars,
                   xmlVars, mainVars, loopVars, registered, regionVars,
                   handleVars>>

(***************************************************************************)
(* The map handle of the vector writers: create_maps of t.vect.in.sos,     *)
(* maps_rows_sensors and maps_rows_timestamps of v.in.sos.  The calls on   *)
(* `new` are followed in the order of the code; what is not a call on the  *)
(* handle is left to the shape of the input.                               *)
(***************************************************************************)

MaxProps == 2       \* observed properties in parsed_obs
MaxFeats == 2       \* features of a property
MaxFilled == 1      \* non-empty buckets a feature adds

Writers == {"create_maps", "maps_rows_sensors", "maps_rows_timestamps"}

\* a feature: whether its name is in points already (and so has its table),
\* and how many buckets it is the first to put a value in
Features == [known : BOOLEAN, filled : 0..MaxFilled]

\* new = VectorTopo(...)
NewHandle == [is_open |-> FALSE, faults |-> {}]

\* new.open(...)
open(h) ==
    IF h.is_open THEN [h EXCEPT !.faults = @ \cup {"opened while open"}]
    ELSE [h EXCEPT !.is_open = TRUE]

\* new.close(...)
close(h) ==
    IF h.is_open THEN [h EXCEPT !.is_open = FALSE]
    ELSE [h EXCEPT !.faults = @ \cup {"closed while not open"}]

\* new.write(...), new.table.create(...), new.table.insert(...)
write(h) ==
    IF h.is_open THEN h
    ELSE [h EXCEPT !.faults = @ \cup {"written while not open"}]

\* n writes one after the other
RECURSIVE writes(_, _)
writes(h, n) == IF n = 0 THEN h ELSE writes(write(h), n - 1)

\* if new.is_open(): new.close(...)
close_if_open(h) == IF h.is_open THEN close(h) ELSE h

\* v.in.sos 430-436, 593-599: the handle at the start of a property
reopen(h) == IF h.is_open THEN open(close(h)) ELSE open(h)

\* the non-empty buckets of a list of features
RECURSIVE filled_buckets(_)
filled_buckets(feats) ==
    IF Len(feats) = 0 THEN 0
    ELSE feats[1].filled + filled_buckets(Tail(feats))

\* the features of a list whose points are new
new_points(feats) == Cardinality({f \in 1..Len(feats) : ~feats[f].known})

\* t.vect.in.sos 298-304: a feature of a name not in points
tvect_feature(h, a) ==
    IF a.known THEN h
    ELSE write(IF ~h.is_open THEN open(h) ELSE h)

\* t.vect.in.sos 341-364: a non-empty bucket
tvect_bucket(h) == close(writes(open(h), 2))

\* v.in.sos 493-541: the table of a property
sensors_table(h, feats) ==
    LET linked == close(write(open(close_if_open(h))))
    IN  writes(open(linked), new_points(feats) + Len(feats))

\* v.in.sos 636-718: a feature
timestamps_feature(h, a) ==
    LET opened == open(close_if_open(h))
        linked == IF a.known THEN opened ELSE write(opened)
    IN  writes(open(close(linked)),
               (IF a.known THEN 0 ELSE 1) + a.filled)

HandleInputs ==
    /\ writer \in Writers
    /\ shape \in UNION {[1..n -> UNION {[1..f -> Features] : f \in 0..MaxFeats}]
                         : n \in 0..MaxProps}
    \* the first name a writer meets is not in points
    /\ \A k \in 1..Len(shape) :
           (writer = "create_maps" \/ \A j \in 1..(k - 1) : Len(shape[j]) = 0)
               => (Len(shape[k]) > 0 => ~shape[k][1].known)
    /\ handle = NewHandle
    /\ hk = 0
    /\ hf = 0
    /\ hb = 0
    /\ pcHandle = "properties"

\* no writer is followed
HandleIdle ==
    /\ writer = "None"
    /\ shape = <<>>
    /\ handle = NewHandle
    /\ hk = 0
    /\ hf = 0
    /\ hb = 0
    /\ pcHandle = "idle"

\* for key, observation in parsed_obs.items(): t.vect.in.sos 257-279,
\* v.in.sos 408-436 and 575-599
HandleProperty ==
    /\ pcHandle = "properties"
    /\ hk < Len(shape)
    /\ hk' = hk + 1
    /\ hf' = 0
    /\ hb' = 0
    /\ handle' = IF writer = "create_maps"
                 THEN [NewHandle EXCEPT !.faults = handle.faults]
                 ELSE reopen(handle)
    /\ pcHandle' = "features"
    /\ UNCHANGED <<writer, shape, namesVars, xmlVars, mapsVars, mainVars,
                   wideVars, loopVars, registered, regionVars, rowsVars>>

\* for a in data['features']: t.vect.in.sos 297-320, v.in.sos 438-479 and
\* 601-720
HandleFeature ==
    /\ pcHandle = "features"
    /\ hf < Len(shape[hk])
    /\ hf' = hf + 1
    /\ handle' = CASE writer = "create_maps" ->
                          tvect_feature(handle, shape[hk][hf + 1])
                   [] writer = "maps_rows_sensors" -> handle
                   [] writer = "maps_rows_timestamps" ->
                          timestamps_feature(handle, shape[hk][hf + 1])
    /\ UNCHANGED <<writer, shape, hk, hb, pcHandle, namesVars, xmlVars,
                   mapsVars, mainVars, wideVars, loopVars, registered,
                   regionVars, rowsVars>>

\* after the features: t.vect.in.sos 322-326, v.in.sos 481-543
HandleAfterFeatures ==
    /\ pcHandle = "features"
    /\ hf = Len(shape[hk])
    /\ CASE writer = "create_maps" ->
               /\ handle' = close_if_open(handle)
               /\ hb' = filled_buckets(shape[hk])
               /\ pcHandle' = "buckets"
         [] writer = "maps_rows_sensors" ->
               /\ handle' = sensors_table(handle, shape[hk])
               /\ pcHandle' = "properties"
               /\ UNCHANGED hb
         [] writer = "maps_rows_timestamps" ->
               /\ pcHandle' = "properties"
               /\ UNCHANGED <<handle, hb>>
    /\ UNCHANGED <<writer, shape, hk, hf, namesVars, xmlVars, mapsVars,
                   mainVars, wideVars, loopVars, registered, regionVars,
                   rowsVars>>

\* t.vect.in.sos 328-364: the buckets in turn, and then the next property
HandleBucket ==
    /\ pcHandle = "buckets"
    /\ IF hb > 0
       THEN /\ handle' = tvect_bucket(handle)
            /\ hb' = hb - 1
            /\ UNCHANGED pcHandle
       ELSE /\ pcHandle' = "properties"
            /\ UNCHANGED <<handle, hb>>
    /\ UNCHANGED <<writer, shape, hk, hf, namesVars, xmlVars, mapsVars,
                   mainVars, wideVars, loopVars, registered, regionVars,
                   rowsVars>>

\* the writer returns: v.in.sos 546 and 722 close the handle
HandleReturn ==
    /\ pcHandle = "properties"
    /\ hk = Len(shape)
    /\ handle' = IF writer = "create_maps" THEN handle ELSE close(handle)
    /\ pcHandle' = "returned"
    /\ UNCHANGED <<writer, shape, hk, hf, hb, namesVars, xmlVars, mapsVars,
                   mainVars, wideVars, loopVars, registered, regionVars,
                   rowsVars>>

\* none of the parts after the pipeline is running
LateIdle == LoopIdle /\ TemporalIdle /\ RegionIdle /\ RowsIdle /\ HandleIdle

OthersIdle == MainIdle /\ WideIdle /\ LateIdle

(***************************************************************************)
(* Specifications                                                          *)
(***************************************************************************)

Next ==
    \/ ParseEventTime
    \/ MakeIntervals
    \/ BeginFeature
    \/ Assign
    \/ EndFeatures
    \/ Bucket
    \/ Finish

Init == MapsInputs /\ NamesIdle /\ XmlIdle /\ OthersIdle

Spec == Init /\ [][Next]_vars

NextScan == MakeIntervals \/ ScanAny

InitScan == ScanInputs /\ NamesIdle /\ XmlIdle /\ OthersIdle

SpecScan == InitScan /\ [][NextScan]_vars

NextScenario ==
    \/ Xml2GeoJson
    \/ HandOver
    \/ ParseEventTime
    \/ MakeIntervals
    \/ BeginFeature
    \/ Assign
    \/ EndFeatures
    \/ Bucket
    \/ Finish

InitScenario == ScenarioInputs /\ NamesIdle /\ OthersIdle

SpecScenario == InitScenario /\ [][NextScenario]_vars

NextParse == Xml2GeoJson \/ HandOver

InitParse == ParseInputs /\ NamesIdle /\ OthersIdle

SpecParse == InitParse /\ [][NextParse]_vars

NextLoop == OfferingPass \/ ParseProperties \/ CallCreateMaps

InitLoop ==
    /\ LoopInputs
    /\ NamesIdle /\ XmlIdle /\ MapsIdle /\ WideIdle /\ TemporalIdle /\ RegionIdle
    /\ RowsIdle /\ HandleIdle

NextRows == NextProperty \/ FeatureRows \/ EndProperty

InitRows ==
    /\ RowsInputs
    /\ cols = <<>> /\ inserts = <<>> /\ warned = FALSE /\ pcWide = "idle"
    /\ NamesIdle /\ MainIdle /\ TemporalIdle /\ RegionIdle /\ HandleIdle

SpecRows == InitRows /\ [][NextRows]_vars

NextHandle ==
    \/ HandleProperty
    \/ HandleFeature
    \/ HandleAfterFeatures
    \/ HandleBucket
    \/ HandleReturn

InitHandle ==
    /\ HandleInputs
    /\ NamesIdle /\ XmlIdle /\ MapsIdle /\ MainIdle /\ WideIdle /\ LoopIdle
    /\ TemporalIdle /\ RegionIdle /\ RowsIdle

SpecHandle == InitHandle /\ [][NextHandle]_vars

NextRegion == WriteProcedure \/ SetRegion

InitRegion ==
    /\ RegionInputs
    /\ NamesIdle /\ XmlIdle /\ MapsIdle /\ MainIdle /\ WideIdle /\ LoopIdle
    /\ TemporalIdle /\ RowsIdle /\ HandleIdle

SpecRegion == InitRegion /\ [][NextRegion]_vars

SpecLoop == InitLoop /\ [][NextLoop]_vars

NextMain ==
    \/ Parser
    \/ RunImport
    \/ Service
    \/ TargetCrs
    \/ NextOffering
    \/ Fetch
    \/ Parse
    \/ CreateMaps
    \/ ImportReturns

InitMain ==
    MainInputs /\ NamesIdle /\ XmlIdle /\ MapsIdle /\ WideIdle /\ LateIdle

SpecMain == InitMain /\ [][NextMain]_vars

NextWide ==
    \/ ReadFeatures
    \/ ColumnGuard
    \/ CreateTable
    \/ MakeInserts
    \/ InsertRows

InitWide ==
    (WideInputs \/ WideAtGuard) /\ NamesIdle /\ XmlIdle /\ MainIdle /\ LateIdle

SpecWide == InitWide /\ [][NextWide]_vars

NextNames == Standardize \/ StandardizeAgain

InitNames == NamesInputs /\ XmlIdle /\ MapsIdle /\ OthersIdle

SpecNames == InitNames /\ [][NextNames]_vars

NextXml == Xml2GeoJson

InitXml == XmlInputs /\ NamesIdle /\ MapsIdle /\ OthersIdle

SpecXml == InitXml /\ [][NextXml]_vars

InitXmlMore == XmlMoreInputs /\ NamesIdle /\ MapsIdle /\ OthersIdle

SpecXmlMore == InitXmlMore /\ [][NextXml]_vars

(***************************************************************************)
(* Claims on the buckets                                                   *)
(***************************************************************************)

\* the value list of a procedure in the k-th bucket, empty when it has none
ValuesIn(ivs, k, name) ==
    IF has_key(ivs[k][2], name) THEN get(ivs[k][2], name) ELSE <<>>

\* the places of the buckets whose half-open interval holds t
BucketsHolding(ivs, t, granularity) ==
    {k \in 1..Len(ivs) : ivs[k][1] <= t /\ t < ivs[k][1] + granularity}

\* C1: the bucket keys are start, start + g, start + 2g, ... up to end;
\* there are ceil((end - start + 1) / g) of them; the intervals
\* [key, key + g) follow one another without gap or overlap and every
\* second of [start, end] lies in exactly one of them
C1_BucketGeneration ==
    pcMaps = "features" =>
        LET n == Len(intervals)
            g == seconds_granularity
            width == epoch_e - epoch_s + 1
        IN  /\ n * g >= width
            /\ (n - 1) * g < width
            /\ \A k \in 1..n : intervals[k][1] = epoch_s + (k - 1) * g
            /\ \A k \in 1..(n - 1) : intervals[k][1] + g = intervals[k + 1][1]
            /\ \A t \in epoch_s..epoch_e :
                   Cardinality(BucketsHolding(intervals, t, g)) = 1

\* several buckets, the last reaching beyond the end of the event time
C1_Witness ==
    /\ pcMaps = "features"
    /\ epoch_s > 0
    /\ Len(intervals) >= 2
    /\ intervals[Len(intervals)][1] + seconds_granularity > epoch_e + 1

\* C2: whatever the order the keys are visited in, the scan for a time
\* stamp that lies in some bucket stops at the bucket whose key is
\* start + ((t - start) div g) * g, the only one with key <= t < key + g,
\* and the value joins that bucket and no other
C2_ScanPicksTheBucket ==
    [][pcMaps = "features" =>
          LET t == last'.t
              g == seconds_granularity
              b == epoch_s + ((t - epoch_s) \div g) * g
          IN  BucketsHolding(intervals, t, g) # {} =>
                  /\ last'.found = b
                  /\ b <= t /\ t < b + g
                  /\ \A k \in 1..Len(intervals) :
                        IF intervals[k][1] = b
                        THEN /\ intervals'[k][1] = b
                             /\ ValuesIn(intervals', k, last'.name) =
                                   Append(ValuesIn(intervals, k, last'.name),
                                          fraction(1, 1))
                        ELSE intervals'[k] = intervals[k]]_vars

\* the scan took the time stamp at which a later bucket starts into that
\* bucket, which held a value already
C2_Witness ==
    /\ pcMaps = "features"
    /\ last.found > epoch_s
    /\ last.t = last.found
    /\ \E k \in 1..Len(intervals) :
          /\ intervals[k][1] = last.found
          /\ Len(ValuesIn(intervals, k, last.name)) = 2

\* the second of the hour a time stamp key tYYYYmmddTHHMMSSzzzz stands for
SecondOfKey(timestamp) ==
    60 * (10 * DigitVal(timestamp[13]) + DigitVal(timestamp[14]))
        + 10 * DigitVal(timestamp[15]) + DigitVal(timestamp[16])

\* the epoch seconds of the observation Assign is about to read
NextObservationTime ==
    epoch_s + SecondOfKey(data[fi].series[pi + 1][1]) - StartSecond

OutOfRange(t) ==
    \/ t < epoch_s
    \/ t >= intervals[Len(intervals)][1] + seconds_granularity

\* C3: an observation before the start or at or after the end of the last
\* bucket is dropped: no bucket takes it, no bucket's contents change, and
\* the keys of intervals stay the ones generated from the event time
C3_OutOfRangeDropped ==
    [][/\ pcMaps \in {"features", "tables"} =>
              /\ Len(intervals') = Len(intervals)
              /\ \A k \in 1..Len(intervals) :
                     intervals'[k][1] = intervals[k][1]
       /\ (pcMaps = "features" /\ pi' = pi + 1
             /\ OutOfRange(NextObservationTime)) =>
              /\ intervals' = intervals
              /\ last'.found = 0
              /\ last'.t = NextObservationTime]_vars

\* an observation after the last bucket was read when a bucket held a value
C3_Witness ==
    /\ pcMaps = "features"
    /\ last.name # None
    /\ last.found = 0
    /\ last.t >= intervals[Len(intervals)][1] + seconds_granularity
    /\ CountValues(intervals) > 0

\* the observations of the p-th procedure whose time lies in the k-th bucket
ObservationsIn(p, k) ==
    LET series == data[p].series
        t(j) == epoch_s + SecondOfKey(series[j][1]) - StartSecond
    IN  SelectSeq([j \in 1..Len(series) |-> j],
                  LAMBDA j : /\ intervals[k][1] <= t(j)
                             /\ t(j) < intervals[k][1] + seconds_granularity)

\* the number observed by procedure p at second n, in tenths
TenthsOf(p, n) == (n + 1) * 10 + (IF p = 1 THEN 0 ELSE 5)

\* C4: once all features are read, the list of a procedure in a bucket
\* holds one value per observation of the procedure in the bucket, in the
\* order they were read, and all lists together hold as many values as
\* there are observations in range
C4_ValuesAccumulate ==
    pcMaps \in {"tables", "done"} =>
        /\ \A k \in 1..Len(intervals), p \in 1..Len(data) :
              LET obs == ObservationsIn(p, k)
                  held == ValuesIn(intervals, k, data[p].name)
              IN  /\ Len(held) = Len(obs)
                  /\ \A j \in 1..Len(obs) :
                        held[j].num * 10 = held[j].den *
                            TenthsOf(p, SecondOfKey(data[p].series[obs[j]][1]))
        /\ CountValues(intervals) =
              Cardinality({x \in (1..Len(data)) \X (1..MaxObs) :
                  /\ x[2] <= Len(data[x[1]].series)
                  /\ \E k \in 1..Len(intervals) :
                        \E j \in 1..Len(ObservationsIn(x[1], k)) :
                            ObservationsIn(x[1], k)[j] = x[2]})

\* a bucket holds two values of one procedure, an observation was dropped
C4_Witness ==
    /\ pcMaps = "done"
    /\ \E k \in 1..Len(intervals), p \in 1..Len(data) :
          Len(ValuesIn(intervals, k, data[p].name)) = 2
    /\ \E p \in 1..Len(data) :
          Len(data[p].series) >
              Cardinality({k \in 1..Len(intervals) :
                              has_key(intervals[k][2], data[p].name)})

\* the place in intervals of the bucket with the given key
PlaceOf(bucket) == CHOOSE k \in 1..Len(intervals) : intervals[k][1] = bucket

\* the values of a list added up, in tenths (every input has one decimal)
RECURSIVE TotalTenths(_)
TotalTenths(values) ==
    IF Len(values) = 0 THEN 0
    ELSE (values[1].num * 10) \div values[1].den + TotalTenths(Tail(values))

\* C5: with method 'sum' the value written for a procedure in a bucket is
\* the sum of its list, with 'average' the sum divided by the length of
\* the list; a bucket's table has one row for each procedure that has a
\* list in the bucket and for no other
C5_Aggregation ==
    options.method \in {"average", "sum"} =>
        \A i \in 1..Len(tables) :
            LET procs == intervals[PlaceOf(tables[i].bucket)][2]
                rows == tables[i].rows
            IN  /\ Len(rows) = Len(procs)
                /\ \A r \in 1..Len(rows) :
                      LET values == procs[r][2]
                          v == rows[r][3]
                          n == IF options.method = "average"
                               THEN Len(values) ELSE 1
                      IN  /\ rows[r][2] = procs[r][1]
                          /\ Len(values) > 0
                          /\ v.den > 0
                          /\ v.num * 10 * n = TotalTenths(values) * v.den
                /\ \A r1, r2 \in 1..Len(rows) :
                      rows[r1][2] = rows[r2][2] => r1 = r2

\* the average of two values that is neither of them was written
C5_Witness ==
    /\ options.method = "average"
    /\ \E i \in 1..Len(tables) :
          LET values == intervals[PlaceOf(tables[i].bucket)][2][1][2]
          IN  /\ Len(values) = 2
              /\ values[1] # values[2]
              /\ tables[i].rows[1][3] \notin {values[1], values[2]}

NonEmptyBuckets(upto) == {k \in 1..upto : Len(intervals[k][2]) # 0}

NonEmptyPlace(k) ==
    CHOOSE b \in 1..Len(intervals) :
        /\ Len(intervals[b][2]) # 0
        /\ Cardinality(NonEmptyBuckets(b)) = k

\* C25: in t.vect.in.sos the k-th table is the one of the k-th bucket that
\* holds a value: it is named of output, offering, observed property and
\* the bucket's time stamp, linked as layer k, and has one row (category,
\* name, aggregated value) for each procedure with values in the bucket,
\* the category being the one of the procedure's point in every layer
C25_PerBucketTables ==
    (module = "t.vect.in.sos" /\ pcMaps \in {"tables", "done"}) =>
        /\ Len(tables) = Cardinality(NonEmptyBuckets(bi))
        /\ \A k \in 1..Len(tables) :
              LET procs == intervals[NonEmptyPlace(k)][2]
                  timestamp == strftime_compact(
                                   fromtimestamp(intervals[NonEmptyPlace(k)][1]))
                  rows == tables[k].rows
              IN  /\ tables[k].name
                        = standardize_table_name(
                              <<options.output, offering, obs_key, timestamp>>)
                  /\ tables[k].layer = k
                  /\ Len(rows) = Len(procs)
                  /\ {rows[r][2] : r \in 1..Len(rows)}
                        = {procs[p][1] : p \in 1..Len(procs)}
                  /\ \A r \in 1..Len(rows) :
                        /\ Len(rows[r]) = 3
                        /\ rows[r][1] = get(points, rows[r][2])
                        /\ rows[r][3] = aggregate(get(procs, rows[r][2]),
                                                  options.method)
        /\ \A j, k \in 1..Len(tables) :
              \A q \in 1..Len(tables[j].rows), r \in 1..Len(tables[k].rows) :
                  tables[j].rows[q][2] = tables[k].rows[r][2]
                      => tables[j].rows[q][1] = tables[k].rows[r][1]

\* two layers: the second procedure alone in the first, with category 2,
\* and in the second as well
C25_Witness ==
    /\ module = "t.vect.in.sos"
    /\ pcMaps = "done"
    /\ Len(tables) = 2
    /\ tables[1].layer = 1
    /\ tables[2].layer = 2
    /\ Len(tables[1].rows) = 1
    /\ tables[1].rows[1][1] = 2
    /\ tables[1].rows[1][2] = Procs[2]
    /\ \E r \in 1..Len(tables[2].rows) :
          tables[2].rows[r][1] = 2 /\ tables[2].rows[r][2] = Procs[2]

\* the time stamp of the k-th bucket that holds a value
NonEmptyStamp(k) ==
    strftime_compact(fromtimestamp(intervals[NonEmptyPlace(k)][1]))

\* the layers of t.vect.in.sos are registered
Registered == module = "t.vect.in.sos" /\ pcMaps = "done"

\* one layer is registered for each bucket that holds a value, layer k with
\* the date, hour and minute of the k-th of them, and the list of time
\* stamps is one shorter than the next free layer
LayersRegistered ==
    /\ (module = "t.vect.in.sos" /\ pcMaps \in {"tables", "done"})
          => Len(layers_timestamps) = layer - 1
    /\ Registered =>
          /\ Len(registered) = Cardinality(NonEmptyBuckets(Len(intervals)))
          /\ \A k \in 1..Len(registered) :
                /\ registered[k].layer = k
                /\ layers_timestamps[k] = NonEmptyStamp(k)
                /\ registered[k].start
                      = SubSeq(NonEmptyStamp(k), 2, 5) \o <<"-">>
                        \o SubSeq(NonEmptyStamp(k), 6, 7) \o <<"-">>
                        \o SubSeq(NonEmptyStamp(k), 8, 9) \o <<" ">>
                        \o SubSeq(NonEmptyStamp(k), 11, 12) \o <<":">>
                        \o SubSeq(NonEmptyStamp(k), 13, 14)

\* C29: create_temporal registers one layer for each bucket that holds a
\* value, layer k with the time stamp of the k-th of them, the list of time
\* stamps being one shorter than the next free layer, and no two layers
\* are registered with the same start time
C29_LayerRegistration ==
    /\ LayersRegistered
    /\ Registered =>
          \A j, k \in 1..Len(registered) :
              registered[j].start = registered[k].start => j = k

(***************************************************************************)
(* Claims on the parser                                                    *)
(***************************************************************************)

\* the k-th Quantity of member m is the one field that has the property
OnlyMatchAt(m, k) ==
    /\ k \in 1..Len(m.quantities)
    /\ \A j \in 1..Len(m.quantities) :
          contains(observed_property, m.quantities[j]) <=> j = k

\* the properties a feature gets when the value of every row is its token
\* at position k, the time stamp being the token at position 0
SeriesOfField(k) ==
    [r \in 1..MaxRows |-> <<<<"t", "0", digit(r), "0">>, Token(r, k)>>]

\* C10: when the requested property is the k-th Quantity of a member
\* (counted from 1, the time stamp being field 0) and no other, the value
\* stored for every row of the member is the row's token at position k;
\* for the fields [a:t, a:p] and the property 't' that is position 1
C10_FieldIndex ==
    (pcXml = "returned" /\ geojson.status = "ok") =>
        \A i \in 1..Len(xml_file), k \in 1..MaxFields :
            LET m == xml_file[i]
            IN  (OnlyMatchAt(m, k) /\ m.values.text # <<>>) =>
                    \E f \in 1..Len(geojson.features) :
                        /\ geojson.features[f].name = m.name
                        /\ geojson.features[f].series = SeriesOfField(k)

\* the property is the second field of the first member, and no other
C10_Witness ==
    /\ pcXml = "returned"
    /\ geojson.status = "ok"
    /\ OnlyMatchAt(xml_file[1], 2)
    /\ xml_file[1].values.text # <<>>
    /\ Len(geojson.features) >= 1
    /\ geojson.features[1].series[1][2] = Token(1, 2)

\* member m has a Quantity whose definition contains the property
HasMatch(m) ==
    \E j \in 1..Len(m.quantities) :
        contains(observed_property, m.quantities[j])

\* the features of the returned collection that bear the name of member m
FeaturesOf(m) ==
    {f \in 1..Len(geojson.features) : geojson.features[f].name = m.name}

\* C11: without import_empty a procedure none of whose Quantity fields has
\* the property gets no feature
C11_NoMatchOmitted ==
    (pcXml = "returned" /\ geojson.status = "ok" /\ ~import_empty) =>
        \A i \in 1..Len(xml_file) :
            ~HasMatch(xml_file[i]) => FeaturesOf(xml_file[i]) = {}

\* C12: a procedure whose field matches and whose values text is empty
\* gets no feature without import_empty, and with import_empty exactly one
\* feature whose series has a single key, mapped to 0; a warning is given
\* in both cases
C12_EmptyProcedurePolicy ==
    (pcXml = "returned" /\ geojson.status = "ok") =>
        \A i \in 1..Len(xml_file) :
            LET m == xml_file[i]
            IN  (HasMatch(m) /\ m.values.present /\ m.values.text = <<>>) =>
                    /\ geojson.warnings >= 1
                    /\ ~import_empty => FeaturesOf(m) = {}
                    /\ import_empty =>
                          /\ Cardinality(FeaturesOf(m)) = 1
                          /\ \A f \in FeaturesOf(m) :
                                /\ Len(geojson.features[f].series) = 1
                                /\ geojson.features[f].series[1][2] = <<"0">>

\* the CRS names the location elements of the response declare
CrsNames ==
    {xml_file[i].location.srsName :
        i \in {j \in 1..Len(xml_file) : xml_file[j].location.present}}

\* C13: a response whose location elements declare two different CRS
\* names ends in the CRS error and no collection, hence no feature, is
\* returned; when they all declare one name there is no CRS error and the
\* name is the crs of the returned collection
C13_CrsMismatch ==
    pcXml = "returned" =>
        /\ Cardinality(CrsNames) >= 2 =>
              /\ geojson.status = "ValueError"
              /\ geojson.features = <<>>
        /\ Cardinality(CrsNames) = 1 =>
              /\ geojson.status # "ValueError"
              /\ geojson.status = "ok" => geojson.crs \in CrsNames

\* the first and the third member declare different names and the second
\* has no location
C13_Witness ==
    /\ pcXml = "returned"
    /\ geojson.status = "ValueError"
    /\ Len(xml_file) = 3
    /\ ~xml_file[2].location.present
    /\ xml_file[1].location.present
    /\ xml_file[3].location.present
    /\ xml_file[1].location.srsName # xml_file[3].location.srsName

\* the parser returned a feature collection
Returned == pcXml = "returned" /\ geojson.status = "ok"

\* the rows of member m and the tokens of a row, by the member's own
\* TextBlock
RowsOfMember(m) == split(m.values.text, m.textblock.blockSeparator)
TokensOf(m, row) == split(row, m.textblock.tokenSeparator)

\* 't' and the characters of the token that are not ':', '-' or '+'
KeptChar(c) == c \notin {":", "-", "+"}
KeyOfToken(token) == <<"t">> \o SelectSeq(token, KeptChar)

\* the last row of member m whose first token makes the key
LastRowOf(m, key) ==
    LET rows == RowsOfMember(m)
        r == CHOOSE k \in 1..Len(rows) :
                 /\ KeyOfToken(TokensOf(m, rows[k])[1]) = key
                 /\ \A j \in (k + 1)..Len(rows) :
                       KeyOfToken(TokensOf(m, rows[j])[1]) # key
    IN  rows[r]

\* the member is read with its own separators and has rows of a field
\* with the property
ReadWithRows(m) ==
    /\ HasMatch(m)
    /\ m.textblock.present
    /\ m.values.text # <<>>

C27_IndexOfMatchingField ==
    Returned =>
        \A i \in 1..Len(xml_file) :
            LET m == xml_file[i]
            IN  ReadWithRows(m) =>
                  \A f \in FeaturesOf(m) :
                    LET series == geojson.features[f].series
                    IN  \E j \in 1..Len(m.quantities) :
                          /\ contains(observed_property, m.quantities[j])
                          /\ \A e \in 1..Len(series) :
                                series[e][2]
                                  = TokensOf(m, LastRowOf(m, series[e][1]))[j + 1]

\* C28: the geometry of a feature is the one of its own member's location,
\* and a feature with values comes of a member with a TextBlock of its own
C28_NoLeakBetweenMembers ==
    Returned =>
        \A i \in 1..Len(xml_file) :
            \A f \in FeaturesOf(xml_file[i]) :
                /\ xml_file[i].location.present
                /\ geojson.features[f].geometry.type
                      = xml_file[i].location.type
                /\ geojson.features[f].geometry.coordinates
                      = xml_file[i].location.coordinates
                /\ Len(geojson.features[f].series) > 0
                      => xml_file[i].textblock.present

(***************************************************************************)
(* Claims on a whole run                                                   *)
(***************************************************************************)

\* no step of the run is left to take
Ended == pcMaps \notin {"waiting", "start", "intervals", "features", "tables"}

\* one non-empty bucket, keyed at the start instant, holding 5.0 and 7.0
\* of sensor-1, and with method 'average' the one aggregated value 6.0
ScenarioResult ==
    /\ pcMaps = "done"
    /\ Len(intervals) >= 1
    /\ intervals[1][1] = epoch_s
    /\ intervals[1][2] = << <<"sensor-1", <<[num |-> 5, den |-> 1],
                                           [num |-> 7, den |-> 1]>> >> >>
    /\ \A k \in 2..Len(intervals) : intervals[k][2] = <<>>
    /\ Len(tables) = 1
    /\ tables[1].bucket = epoch_s
    /\ options.method = "average" =>
          /\ Len(tables[1].rows) = 1
          /\ tables[1].rows[1][2] = "sensor-1"
          /\ tables[1].rows[1][3] = [num |-> 6, den |-> 1]

\* C6: the response with the rows 2020-01-01T00:00:00,5.0 and
\* 2020-01-01T00:00:30,7.0 of sensor-1, the event time
\* 2020-01-01T00:00:00/2020-01-01T00:01:00 and the granularity 60 end in
\* one non-empty bucket at the start instant holding [5.0, 7.0], and with
\* method 'average' in the one aggregated value 6.0
C6_Scenario ==
    (/\ xml_file = <<ScenarioMember(<<>>)>>
     /\ event_time = ScenarioEventTime(<<>>)
     /\ seconds_granularity = 60
     /\ options.method \in {"average", "sum"}
     /\ Ended) => ScenarioResult

\* the same run when every time stamp of the response and of the event
\* time carries the offset +0000
ScenarioWithOffsets ==
    (/\ xml_file = <<ScenarioMember(Zone)>>
     /\ event_time = ScenarioEventTime(Zone)
     /\ seconds_granularity = 60
     /\ options.method \in {"average", "sum"}
     /\ Ended) => ScenarioResult

\* no member of the response has an observation of the property
NoData ==
    \A i \in 1..Len(xml_file) :
        ~HasMatch(xml_file[i]) \/ xml_file[i].values.text = <<>>

\* main went past the parsing of the response
HandedOver == pcXml = "idle" /\ pcMaps # "waiting"

\* C22: when no procedure of the response has an observation of the
\* property, main ends with the error of 'no data' and does not call
\* create_maps
C22_NoDataIsFatal ==
    (HandedOver /\ NoData) => pcMaps = "AttributeError"

(***************************************************************************)
(* Claims on an invocation                                                 *)
(***************************************************************************)

\* the invocation is over
Finished ==
    IF program = "t.rast.in.sos" THEN pcMain = "finished" ELSE pcMain = "ended"

\* how the invocation ended
Outcome == IF program = "t.rast.in.sos" THEN rast_status ELSE status

\* the places of the log with an event of one of the kinds
EventsOf(kinds) == {i \in 1..Len(log) : log[i][1] \in kinds}

\* C14: with a method that is neither 'average' nor 'sum' the invocation
\* ends with an error before anything is asked of the service, and nothing
\* is parsed or written
C14_UnsupportedMethodFailsFast ==
    (program # None /\ opt_method \notin {"average", "sum"}) =>
        /\ log = <<>>
        /\ pcMain \in {"parser", "ended", "finished"}
        /\ Finished => Outcome = "parser error"

\* an invocation with method=median and an offering is over
C14_Witness ==
    /\ Finished
    /\ opt_method = "median"
    /\ Len(opt_offering) >= 1
    /\ Outcome = "parser error"

\* C15: in an XY location r.in.sos and v.in.sos end with an error at
\* get_target_crs: no observation is requested and nothing is written
C15_XYLocationRejected ==
    (program \in {"r.in.sos", "v.in.sos"} /\ xy_location) =>
        /\ EventsOf({"request", "request failed", "parse", "maps"}) = {}
        /\ pcMain \notin {"loop", "fetch", "parse", "maps"}
        /\ Finished => Outcome # "ok"

\* C16: a failed request for an offering ends the module with a fatal
\* error: the offering is neither parsed nor written, and nothing is
\* requested, parsed or written after it
C16_FetchFailureAborts ==
    \A i \in EventsOf({"request failed"}) :
        /\ i = Len(log)
        /\ pcMain \in {"ended", "finished"}
        /\ status = "fatal"
        /\ \A j \in 1..Len(log) : j # i => log[j][2] # log[i][2]

\* the request for the second offering failed after the first offering
\* was written
C16_Witness ==
    /\ program = "r.in.sos"
    /\ Len(log) = 5
    /\ log[4] = <<"maps", opt_offering[1]>>
    /\ log[5] = <<"request failed", opt_offering[2]>>

\* C17: when r.in.sos ends with a fatal condition inside t.rast.in.sos,
\* t.rast.in.sos does not end as if it had completed
C17_FatalPropagates ==
    (program = "t.rast.in.sos" /\ pcMain = "finished"
        /\ status \notin {"none", "ok"}) => rast_status # "ok"

\* request, parse and create_maps for each offering of the list, in order
InOrder ==
    LET step == <<"request", "parse", "maps">>
    IN  [j \in 1..(3 * Len(opt_offering)) |->
            <<step[((j - 1) % 3) + 1], opt_offering[((j - 1) \div 3) + 1]>>]

\* C18: when r.in.sos, v.in.sos or t.vect.in.sos returns and no request or
\* parse failed, every offering of the list was requested, parsed and
\* written exactly once, in the order of the list
C18_EveryOfferingInOrder ==
    (program \in {"r.in.sos", "v.in.sos", "t.vect.in.sos"}
        /\ pcMain = "ended" /\ status = "ok") =>
        log = <<<<"capabilities", <<>>>>>> \o InOrder

\* the same for r.in.sos and t.vect.in.sos alone
InOrderButVector ==
    (program \in {"r.in.sos", "t.vect.in.sos"}
        /\ pcMain = "ended" /\ status = "ok") =>
        log = <<<<"capabilities", <<>>>>>> \o InOrder

\* the calls of create_maps, in their order
CreateMapsCalls ==
    SelectSeq(log, LAMBDA e : e[1] = "create_maps")

\* C24: what create_maps gets for an offering was parsed of that offering's
\* response only
C24_NoCarryOver ==
    \A c \in 1..Len(CreateMapsCalls) :
        \A i \in 1..Len(CreateMapsCalls[c][3]) :
            CreateMapsCalls[c][3][i][2][1] = CreateMapsCalls[c][2]

\* the rows of the table of that name, none when there is no such table
RowsOfTable(tabs, tname) ==
    IF by_name(tabs, tname) = 0 THEN <<>> ELSE tabs[by_name(tabs, tname)].rows

\* a feature of the property has been worked through
FeatureWritten ==
    pcRows = "features" /\ pcRows' = "features" /\ fi' = fi + 1

\* what the feature's buckets do to the table of its procedure
RowsStepLayout ==
    LET a == data[fi']
        tname == standardize_table_name(<<options.output, offering, a.name>>)
        before == RowsOfTable(tables, tname)
        after == RowsOfTable(tables', tname)
        columns == rows_columns(obs_props)
        c == index(columns, <<obs_key, "DOUBLE">>)
        filled == {b \in 1..Len(intervals') : Len(intervals'[b][2]) # 0}
        stamp(b) == strftime_compact(fromtimestamp(intervals'[b][1]))
        value(b) == aggregate(intervals'[b][2][1][2], options.method)
        fresh == {b \in filled :
                     \A r \in 1..Len(before) : before[r][2] # stamp(b)}
    IN  /\ \A r1, r2 \in 1..Len(after) :
               after[r1][2] = after[r2][2] => r1 = r2
        /\ Len(after) = Len(before) + Cardinality(fresh)
        /\ \A r \in 1..Len(before) :
               IF \E b \in filled : stamp(b) = before[r][2]
               THEN \E b \in filled :
                        /\ stamp(b) = before[r][2]
                        /\ after[r] = [before[r] EXCEPT ![c] = value(b)]
               ELSE after[r] = before[r]
        /\ \A b \in fresh :
               \E r \in (Len(before) + 1)..Len(after) :
                   after[r] = [new_insert(get(points', a.name), stamp(b),
                                          Len(columns))
                                  EXCEPT ![c] = value(b)]

\* C21: the table of a procedure holds at most one row for a time stamp;
\* a bucket whose time stamp has a row in the table puts its aggregate into
\* the column of the property in that row and adds no row; any other bucket
\* adds one row of connection, time stamp, the aggregate in the column of
\* the property and null in the columns of the other properties
C21_OneRowPerBucket ==
    [][FeatureWritten => RowsStepLayout]_vars

\* C26: the handle is not opened while open nor closed while not open,
\* tables and rows are written while it is open, and it is closed when
\* the writer has returned
C26_HandleDiscipline ==
    /\ handle.faults = {}
    /\ pcHandle = "returned" => ~handle.is_open

\* C30: when g.region is run, every procedure written lies within the
\* bounds: s <= y <= n and w <= x <= e
C30_RegionHoldsEveryPoint ==
    pcRegion = "done" =>
        \A k \in 1..Len(geometry_list) :
            /\ region.s <= geometry_list[k][2]
            /\ geometry_list[k][2] <= region.n
            /\ region.w <= geometry_list[k][1]
            /\ geometry_list[k][1] <= region.e

(***************************************************************************)
(* Claims on the sanitizer                                                 *)
(***************************************************************************)

AlphaNumUnderscore == {"_", "a", "1"}

\* C8: standardizing an already standardized name changes nothing, and a
\* standardized name holds none of ':', '-', '.'
C8_SanitizerIdempotent ==
    /\ pcName \in {"returned", "again"} =>
           \A c \in {":", "-", "."} : ~HasChar(table_name, c)
    /\ pcName = "again" => again = table_name

\* a name with all three replaced characters in it was standardized twice
C8_Witness ==
    /\ pcName = "again"
    /\ \A c \in {":", "-", "."} : HasChar(JoinParts(name_parts[1], Tail(name_parts)), c)
    /\ Len(name_parts) = 2

\* C9: a standardized name consists of alphanumeric characters and
\* underscore only
C9_OnlyIdentifierChars ==
    pcName \in {"returned", "again"} =>
        \A i \in 1..Len(table_name) : table_name[i] \in AlphaNumUnderscore

(***************************************************************************)
(* Claims on the table of maps_rows_sensors                                *)
(***************************************************************************)

\* the table is written
WideDone == pcWide = "done"

\* the columns after cat and name
BucketColumns == [k \in 1..(Len(cols) - 2) |-> cols[k + 2]]

\* the buckets that hold a value
FilledBuckets == {k \in 1..Len(intervals) : Len(intervals[k][2]) # 0}

\* the row of procedure name in the table
TableRowsOf(proc) ==
    {k \in 1..Len(tables[1].rows) : tables[1].rows[k][2] = proc}

\* C19: the warning is given exactly when there are more than 2000 columns,
\* cat and name counted; with or without it the run ends in no exception,
\* the table has all the columns and every row made is inserted whole
C19_ColumnGuard ==
    /\ pcWide \in {"table", "inserts", "rows", "done"}
          => (warned <=> Len(cols) > ColumnLimit)
    /\ warned => pcWide \in {"table", "inserts", "rows", "done"}
    /\ WideDone
          => /\ tables[1].cols = cols
             /\ Len(tables[1].rows) = Len(inserts)
             /\ \A k \in 1..Len(inserts) :
                   /\ tables[1].rows[k] = inserts[k][2]
                   /\ Len(tables[1].rows[k]) = Len(cols)

\* a table of 2001 columns is written after the warning
C19_Witness ==
    /\ WideDone
    /\ warned
    /\ Len(tables[1].cols) = ColumnLimit + 1
    /\ Len(tables[1].rows) = 1
    /\ Len(tables[1].rows[1]) = ColumnLimit + 1

\* the columns are cat, name and one DOUBLE column for each bucket holding
\* a value
WideColumns ==
    /\ SubSeq(cols, 1, 2) = BaseColumns
    /\ \A k \in 1..Len(BucketColumns) : BucketColumns[k][2] = "DOUBLE"
    /\ Cardinality({BucketColumns[k] : k \in 1..Len(BucketColumns)})
          = Len(BucketColumns)
    /\ {BucketColumns[k] : k \in 1..Len(BucketColumns)}
          = {column_of(intervals[k][1]) : k \in FilledBuckets}

\* one row for each procedure of the feature collection, and no other row
WideOneRowEach ==
    /\ \A f \in 1..Len(data) : Cardinality(TableRowsOf(data[f].name)) = 1
    /\ \A k \in 1..Len(tables[1].rows) :
          \E f \in 1..Len(data) : tables[1].rows[k][2] = data[f].name

\* a row is as long as the list of columns and starts with the category of
\* its procedure's point; in the column of a bucket holding a value (by
\* WideColumns there is no other column after name) it has the aggregate of
\* its procedure's values, and null when the procedure has none there
WideRowValues ==
    \A r \in 1..Len(tables[1].rows) :
        LET row == tables[1].rows[r]
        IN  /\ Len(row) = Len(cols)
            /\ has_key(points, row[2])
            /\ row[1] = get(points, row[2])
            /\ \A k \in FilledBuckets :
                  LET c == index(cols, column_of(intervals[k][1]))
                  IN  IF has_key(intervals[k][2], row[2])
                      THEN /\ row[c] = aggregate(get(intervals[k][2], row[2]),
                                                 options.method)
                           /\ row[c] # Null
                      ELSE row[c] = Null

\* a procedure with no observation has a row of nulls
WideEmptyRows ==
    \A f \in 1..Len(data) :
        Len(data[f].series) = 0
            => \E r \in TableRowsOf(data[f].name) :
                   \A c \in 3..Len(cols) : tables[1].rows[r][c] = Null

\* C20: the table of the wide layout has the columns cat, name and one DOUBLE
\* column for each bucket holding a value, one row for each procedure of the
\* feature collection, non-null exactly where the procedure has values and
\* holding the aggregate there, all null for a procedure with no observation,
\* and every row is as long as the list of columns
C20_WideLayout ==
    WideDone => /\ WideColumns
                /\ WideOneRowEach
                /\ WideRowValues
                /\ WideEmptyRows

\* what holds of the table: all of it but a row for each procedure
WideLayoutButRows ==
    WideDone => WideColumns /\ WideRowValues /\ WideEmptyRows

=============================================================================
